---- MODULE Spec2Model ----
(***************************************************************************)
(* A model of the request pipeline of the router service (src/src/index.ts) *)
(* and of the Responses API v2 transformer (src/custom-responses-api-v2.js).*)
(*                                                                         *)
(* JavaScript values are tagged records, so that null, undefined, strings, *)
(* arrays and objects stay distinct and comparable:                        *)
(*   Null, Undef, Str(s), Arr(a), and objects with t = "object".           *)
(* An object has every field the code reads; a field the object does not   *)
(* have holds Undef.                                                       *)
(***************************************************************************)
EXTENDS Integers, Sequences, FiniteSets, TLC

VARIABLES
  req,       \* the request in flight: [url, body]
  pc,        \* its position in the preHandler hook chain
  orig,      \* history: the body as it arrived
  steps,     \* history: the pipeline steps applied so far, in order
  cfg,       \* the router configuration: routes, threshold, custom script path
  rt,        \* the router call: [phase, at], at the rule it is suspended at
  script,    \* history: what the custom script answered
  decision,  \* the engine's outcome, once it has one
  forwarded, \* what the downstream handler was given
  cancelled, \* the client has gone away while the custom script was outstanding
  conversationStates,  \* the transformer's global map: conversation id -> state
  executionContexts,   \* the transformer's global map: conversation id -> context
  clients,   \* the transformer's callers: [request, context, phase, out, ...]
  service    \* the service's start-up: [pc, pidFile, peer, env, config, server]

\* the transformer's part of the state
conv == <<conversationStates, executionContexts, clients>>

\* the pipeline's part of the state
pipe == <<req, pc, orig, steps, cfg, rt, script, decision, forwarded, cancelled>>

vars == <<req, pc, orig, steps, cfg, rt, script, decision, forwarded, cancelled, conv,
          service>>

-----------------------------------------------------------------------------
(* Bounds of the model *)

MaxMsgs == 2
MaxBlocks == 2

-----------------------------------------------------------------------------
(* JavaScript values *)

Null == [t |-> "null"]
Undef == [t |-> "undefined"]
Str(s) == [t |-> "string", s |-> s]
Arr(a) == [t |-> "array", a |-> a]
EmptyObj == [t |-> "emptyobject"]
Num(n) == [t |-> "number", n |-> n]
Bool(b) == [t |-> "boolean", b |-> b]

IsNullish(v) == v.t \in {"null", "undefined"}
IsStr(v) == v.t = "string"
IsArr(v) == v.t = "array"
IsObj(v) == v.t \in {"object", "emptyobject"}

\* the elements of an array, as a sequence; none when the value is no array
ListOf(v) == IF IsArr(v) THEN v.a ELSE <<>>

\* JavaScript truthiness: null, undefined, "", 0 and false are falsy; arrays and
\* objects are truthy
Truthy(v) == ~IsNullish(v) /\ v # Str("") /\ v # Num(0) /\ v # Bool(FALSE)

\* a || b
Or(a, b) == IF Truthy(a) THEN a ELSE b

\* a content block: { type, text, content, name, id, tool_use_id, input }
Block(type, text, content, name, id, tuid, input) ==
  [t |-> "object", type |-> type, text |-> text, content |-> content,
   name |-> name, id |-> id, tool_use_id |-> tuid, input |-> input]

\* the object literal { type: <type>, text: <text> }
TypeText(type, text) ==
  Block(Str(type), Str(text), Undef, Undef, Undef, Undef, Undef)

\* a tool call: { id, name, function: { name } }; fname is function?.name
ToolCall(id, name, fname) == [t |-> "object", id |-> id, name |-> name, fname |-> fname]

\* a message: { role, content, tool_calls, tool_call_id }
Msg(role, content, calls, tcid) ==
  [t |-> "object", role |-> role, content |-> content, tool_calls |-> calls,
   tool_call_id |-> tcid]

RECURSIVE Join(_, _)
\* Array.prototype.join over a sequence of strings
Join(q, sep) ==
  IF Len(q) = 0 THEN ""
  ELSE IF Len(q) = 1 THEN q[1]
  ELSE q[1] \o sep \o Join(Tail(q), sep)

\* Array.prototype.map
Map(q, F(_)) == [i \in 1..Len(q) |-> F(q[i])]

RECURSIVE JsString(_)
\* String(v), as a template literal `${v}` computes it
JsString(v) ==
  CASE v.t = "null" -> "null"
    [] v.t = "undefined" -> "undefined"
    [] v.t = "string" -> v.s
    [] v.t = "array" -> Join([i \in 1..Len(v.a) |->
                               IF IsNullish(v.a[i]) THEN "" ELSE JsString(v.a[i])], ",")
    [] OTHER -> "[object Object]"

-----------------------------------------------------------------------------
(* The null-content preHandler of index.ts: the messages pass (Pass A) *)

\* mutant of ContentAbsent: tests msg.content === null only
ContentAbsent_NullOnly(msg) == msg.content = Null

\* msg.content === null || msg.content === undefined
ContentAbsent(msg) == IsNullish(msg.content)

\* msg.role === 'tool' || msg.tool_call_id
IsToolMessage(msg) == msg.role = Str("tool") \/ Truthy(msg.tool_call_id)

\* tc.function?.name || tc.name || 'unknown'
toolName(tc) == Or(tc.fname, Or(tc.name, Str("unknown"))).s

\* mutant of executingText: the names after a plain prefix, without the count
\* and the brackets
executingText_PlainPrefix(calls) ==
  "Executing tools: " \o Join([i \in 1..Len(calls) |-> toolName(calls[i])], ", ")

\* `[Executing ${n} tool${n > 1 ? 's' : ''}: ${toolNames.join(', ')}]`
executingText(calls) ==
  "[Executing " \o ToString(Len(calls)) \o " tool"
    \o (IF Len(calls) > 1 THEN "s" ELSE "") \o ": "
    \o Join([i \in 1..Len(calls) |-> toolName(calls[i])], ", ") \o "]"

\* the callback of msg.content.map in fixMessageContent; gen is the generated id
fixContentItem(item, gen) ==
  IF IsNullish(item) THEN TypeText("text", "")
  ELSE IF item.t = "object" THEN
    IF item.type = Str("tool_use") THEN
      [item EXCEPT !.name = IF Truthy(@) THEN @ ELSE Str("unknown_tool"),
                   !.id = IF Truthy(@) THEN @ ELSE Str(gen),
                   !.input = IF IsNullish(@) THEN EmptyObj ELSE @]
    ELSE IF item.type = Str("tool_result") THEN
      [item EXCEPT !.content = IF IsNullish(@) THEN Str("") ELSE @,
                   !.tool_use_id = IF Truthy(@) THEN @ ELSE Str(gen)]
    ELSE IF IsNullish(item.text) THEN [item EXCEPT !.text = Str("")]
    ELSE IF IsNullish(item.content) THEN [item EXCEPT !.content = Str("")]
    ELSE item
  ELSE item

\* .filter(item => item !== null && item !== undefined)
dropNullish(q) == SelectSeq(q, LAMBDA x : ~IsNullish(x))

\* { ...msg, content: "[Continuing...]" } on a message that is a string, a number
\* or a boolean: every property read of it gives undefined, and the spread
\* keeps what the primitive spreads to
Spread(msg) ==
  [t |-> "object", role |-> Undef, content |-> Str("[Continuing...]"),
   tool_calls |-> Undef, tool_call_id |-> Undef, spread |-> msg]

fixMessageContent(msg, gen) ==
  IF ~IsObj(msg) THEN Spread(msg)
  ELSE IF msg = EmptyObj THEN Spread(msg)
  ELSE IF IsToolMessage(msg) /\ ContentAbsent(msg) THEN
    [msg EXCEPT !.content = Str("")]
  ELSE IF IsArr(msg.tool_calls) /\ ContentAbsent(msg) THEN
    [msg EXCEPT !.content = Str(executingText(msg.tool_calls.a))]
  ELSE IF ContentAbsent(msg) THEN
    IF msg.role = Str("user") THEN [msg EXCEPT !.content = Str("")]
    ELSE [msg EXCEPT !.content = Str("[Continuing...]")]
  ELSE IF IsArr(msg.content) THEN
    [msg EXCEPT !.content =
       Arr(dropNullish([i \in 1..Len(msg.content.a) |->
                          fixContentItem(msg.content.a[i], gen)]))]
  ELSE msg

\* mutant of fixMessages: messages whose content is absent are left out
fixMessages_DropsAbsent(messages, gen) ==
  IF IsArr(messages) THEN
    Arr(SelectSeq([i \in 1..Len(messages.a) |-> fixMessageContent(messages.a[i], gen)],
                  LAMBDA m : m.content \notin {Str(""), Str("[Continuing...]")}))
  ELSE messages

\* req.body.messages.map(fixMessageContent), when messages is an array
fixMessages(messages, gen) ==
  IF IsArr(messages) THEN
    Arr([i \in 1..Len(messages.a) |-> fixMessageContent(messages.a[i], gen)])
  ELSE messages

\* the property reads of fixMessageContent that raise a TypeError: msg.role of a
\* message that is null or undefined, and tc.function of a tool call that is
\* null or undefined, read when the content is absent
messageThrows(msg) ==
  \/ IsNullish(msg)
  \/ /\ msg.t = "object"
     /\ ~IsToolMessage(msg)
     /\ IsArr(msg.tool_calls)
     /\ ContentAbsent(msg)
     /\ \E k \in 1..Len(msg.tool_calls.a) : IsNullish(msg.tool_calls.a[k])

RECURSIVE throwsFrom(_, _)
\* the index of the first message from i on at which the map raises; 0 when
\* it completes
throwsFrom(q, i) ==
  IF i > Len(q) THEN 0
  ELSE IF messageThrows(q[i]) THEN i
  ELSE throwsFrom(q, i + 1)

\* the messages pass raises on this body
passAThrows(body) ==
  body.t = "object" /\ IsArr(body.messages) /\ throwsFrom(body.messages.a, 1) > 0

\* what the callback has written into the item itself when it returns: the
\* tool_use and tool_result branches assign to the item, the others build a
\* new object
itemInPlace(item, gen) ==
  IF item.t = "object" /\ item.type \in {Str("tool_use"), Str("tool_result")}
  THEN fixContentItem(item, gen) ELSE item

\* the message as the request still holds it after fixMessageContent returned
messageInPlace(msg, gen) ==
  IF msg.t = "object" /\ IsArr(msg.content)
  THEN [msg EXCEPT !.content = Arr([i \in 1..Len(@.a) |-> itemInPlace(@.a[i], gen)])]
  ELSE msg

\* the messages the request is left with when the map raised at index k: the
\* array is not replaced, the items written before the raise stay written
messagesLeftAt(messages, k, gen) ==
  Arr([i \in 1..Len(messages.a) |->
         IF i < k THEN messageInPlace(messages.a[i], gen) ELSE messages.a[i]])

-----------------------------------------------------------------------------
(* The null-content preHandler of index.ts: the input pass (Pass B) *)

\* msg.role === 'assistant' ? 'output_text' : 'input_text'
contentType(msg) == IF msg.role = Str("assistant") THEN "output_text" ELSE "input_text"

\* the text a tool_use or tool_result block is replaced by
toolText(item) ==
  IF item.type = Str("tool_use") THEN
    "[Tool: " \o JsString(Or(item.name, Str("unknown")))
      \o " (" \o JsString(Or(item.id, Str("unknown"))) \o ")]"
  ELSE
    "[Tool Result " \o JsString(Or(item.tool_use_id, Str("unknown"))) \o "]\n"
      \o JsString(Or(item.content, Str("")))

\* mutant of fixInputItem: an object's absent text is left as it is
fixInputItem_KeepsAbsentText(item, msg) ==
  IF IsNullish(item) THEN TypeText(contentType(msg), "")
  ELSE IF IsStr(item) THEN TypeText(contentType(msg), item.s)
  ELSE item

\* the callback of msg.content.map in the input pass
fixInputItem(item, msg) ==
  IF IsNullish(item) THEN TypeText(contentType(msg), "")
  ELSE IF IsStr(item) THEN TypeText(contentType(msg), item.s)
  ELSE IF item.t = "object" THEN
    IF IsNullish(item.text) THEN [item EXCEPT !.text = Str("")]
    ELSE
      LET typed == IF Truthy(item.type) THEN item
                   ELSE [item EXCEPT !.type = Str(contentType(msg))]
      IN IF typed.type \in {Str("tool_use"), Str("tool_result")}
         THEN TypeText(contentType(msg), toolText(typed))
         ELSE typed
  ELSE item

fixInputMessage(msg) ==
  IF IsToolMessage(msg) /\ ContentAbsent(msg) THEN
    [msg EXCEPT !.content = Arr(<<TypeText("input_text", "")>>)]
  ELSE IF ContentAbsent(msg) THEN
    [msg EXCEPT !.content = Arr(<<TypeText(contentType(msg), "")>>)]
  ELSE IF IsStr(msg.content) THEN
    [msg EXCEPT !.content = Arr(<<TypeText(contentType(msg), msg.content.s)>>)]
  ELSE IF IsArr(msg.content) THEN
    LET fixedContent == dropNullish([i \in 1..Len(msg.content.a) |->
                                       fixInputItem(msg.content.a[i], msg)])
    IN [msg EXCEPT !.content =
          Arr(IF Len(fixedContent) = 0
              THEN <<TypeText(contentType(msg), "")>>
              ELSE fixedContent)]
  ELSE msg

\* the callback of .map in the final safety pass
finalItem(item, msg) ==
  IF IsStr(item) THEN TypeText(contentType(msg), item.s)
  ELSE IF item.t = "object" THEN
    IF IsNullish(item.text) THEN [item EXCEPT !.text = Str("")]
    ELSE IF ~Truthy(item.type) THEN [item EXCEPT !.type = Str(contentType(msg))]
    ELSE item
  ELSE TypeText(contentType(msg), "")

finalSafetyMessage(msg) ==
  IF ContentAbsent(msg) THEN
    [msg EXCEPT !.content = Arr(<<TypeText(contentType(msg), "")>>)]
  ELSE IF IsStr(msg.content) THEN
    [msg EXCEPT !.content = Arr(<<TypeText(contentType(msg), msg.content.s)>>)]
  ELSE IF IsArr(msg.content) THEN
    LET kept == dropNullish(msg.content.a)
        cleanContent == [i \in 1..Len(kept) |-> finalItem(kept[i], msg)]
    IN [msg EXCEPT !.content =
          Arr(IF Len(cleanContent) = 0
              THEN <<TypeText(contentType(msg), "")>>
              ELSE cleanContent)]
  ELSE msg

\* req.url.includes('/v1/responses')
isResponsesApi(url) == url = "/v1/responses"

\* the input pass, then the final safety pass when the url is the Responses API's
fixInput(input, url) ==
  LET first == IF IsArr(input)
               THEN Arr([i \in 1..Len(input.a) |-> fixInputMessage(input.a[i])])
               ELSE input
  IN IF isResponsesApi(url) /\ IsArr(first)
     THEN Arr([i \in 1..Len(first.a) |-> finalSafetyMessage(first.a[i])])
     ELSE first

-----------------------------------------------------------------------------
(* Strings *)

RECURSIVE IndexFrom(_, _, _)
\* the first position >= i at which pat occurs in s; 0 when there is none
IndexFrom(s, pat, i) ==
  IF i + Len(pat) - 1 > Len(s) THEN 0
  ELSE IF SubSeq(s, i, i + Len(pat) - 1) = pat THEN i
  ELSE IndexFrom(s, pat, i + 1)

IndexOf(s, pat) == IndexFrom(s, pat, 1)

Includes(s, pat) == IndexOf(s, pat) > 0

Whitespace == {" ", "\n", "\t"}

RECURSIVE TrimLeft(_)
TrimLeft(s) ==
  IF Len(s) > 0 /\ Head(s) \in Whitespace THEN TrimLeft(Tail(s)) ELSE s

RECURSIVE TrimRight(_)
TrimRight(s) ==
  IF Len(s) > 0 /\ SubSeq(s, Len(s), Len(s)) \in Whitespace
  THEN TrimRight(SubSeq(s, 1, Len(s) - 1))
  ELSE s

Trim(s) == TrimLeft(TrimRight(s))

\* the lower-case form of one character
LowerChar(c) ==
  CASE c = "A" -> "a" [] c = "B" -> "b" [] c = "C" -> "c" [] c = "D" -> "d"
    [] c = "E" -> "e" [] c = "F" -> "f" [] c = "G" -> "g" [] c = "H" -> "h"
    [] c = "I" -> "i" [] c = "J" -> "j" [] c = "K" -> "k" [] c = "L" -> "l"
    [] c = "M" -> "m" [] c = "N" -> "n" [] c = "O" -> "o" [] c = "P" -> "p"
    [] c = "Q" -> "q" [] c = "R" -> "r" [] c = "S" -> "s" [] c = "T" -> "t"
    [] c = "U" -> "u" [] c = "V" -> "v" [] c = "W" -> "w" [] c = "X" -> "x"
    [] c = "Y" -> "y" [] c = "Z" -> "z" [] OTHER -> c

RECURSIVE Lower(_)
Lower(s) == IF Len(s) = 0 THEN "" ELSE LowerChar(Head(s)) \o Lower(Tail(s))

-----------------------------------------------------------------------------
(* The null-content preHandler as one step of the hook chain *)

\* the request body: { model, messages, input, thinking, tools }
Body(model, messages, input, thinking, tools) ==
  [t |-> "object", model |-> model, messages |-> messages, input |-> input,
   thinking |-> thinking, tools |-> tools]

\* the router configuration: { routes, longContextThresholdTokens, customRouterPath }
Config(routes, threshold, path) ==
  [routes |-> routes, longContextThresholdTokens |-> threshold,
   customRouterPath |-> path]

Routes(default, background, think, longContext, webSearch) ==
  [default |-> default, background |-> background, think |-> think,
   longContext |-> longContext, webSearch |-> webSearch]

NoConfig == Config(Routes(Undef, Undef, Undef, Undef, Undef), 60000, Undef)

NoScript == [kind |-> "none", value |-> Undef]

RouterIdle == [phase |-> "idle", at |-> 0]

NoDecision == [kind |-> "none", provider |-> "", model |-> "", source |-> ""]

NotForwarded == [sent |-> FALSE, body |-> Undef, decision |-> NoDecision]

\* the start-up of the service, where the model leaves run() out
NotStarted ==
  [pc |-> "off", pidFile |-> "none", peer |-> "off", env |-> [t |-> "undefined"],
   config |-> [t |-> "undefined"], server |-> [t |-> "undefined"]]

\* the conversation ids of the model; "default" stands for a missing id
ConvIds == {"default", "a", "b"}

\* the transformer's constructor on a fresh process: the global maps are empty
TransformerConstructed ==
  /\ conversationStates = [id \in ConvIds |-> Undef]
  /\ executionContexts = [id \in ConvIds |-> Undef]

\* the ids `tool_${Date.now()}_${Math.random()...}` may produce
GenIds == {"tool_1", "tool_2"}

\* the messages pass raises, or the final safety pass calls .map on a truthy
\* input that is no array
hookThrows(r) ==
  \/ passAThrows(r.body)
  \/ /\ r.body.t = "object"
     /\ isResponsesApi(r.url)
     /\ Truthy(r.body.input)
     /\ ~IsArr(r.body.input)

\* fixBody with the messages pass only
fixBody_MessagesOnly(r, gen) ==
  IF r.body.t = "object"
  THEN [r.body EXCEPT !.messages = fixMessages(@, gen)]
  ELSE r.body

\* the body the hook leaves: the messages pass, then the input passes; when
\* the messages pass raises, nothing after it runs
fixBody(r, gen) ==
  IF passAThrows(r.body)
  THEN [r.body EXCEPT
          !.messages = messagesLeftAt(@, throwsFrom(r.body.messages.a, 1), gen)]
  ELSE IF r.body.t = "object"
  THEN [r.body EXCEPT !.messages = fixMessages(@, gen),
                      !.input = fixInput(@, r.url)]
  ELSE r.body

\* the passes the hook applies to this request, in the order of the code
passesOf(r) ==
  IF passAThrows(r.body) THEN <<"passA">>
  ELSE IF r.body.t = "object"
  THEN (IF IsArr(r.body.messages) THEN <<"passA">> ELSE <<>>)
         \o (IF IsArr(r.body.input) THEN <<"passB">> ELSE <<>>)
  ELSE <<>>

NullContentFix ==
  /\ pc = "nullfix"
  /\ \E gen \in GenIds : req' = [req EXCEPT !.body = fixBody(req, gen)]
  /\ steps' = steps \o passesOf(req)
  /\ pc' = IF hookThrows(req) THEN "failed" ELSE "router"
  /\ UNCHANGED <<orig, cfg, rt, script, decision, forwarded, cancelled, conv, service>>

-----------------------------------------------------------------------------
(* The requests of the normaliser's specification *)

TextBlock(text) == Block(Str("text"), text, Undef, Undef, Undef, Undef, Undef)
ToolUse(name, id, text) == Block(Str("tool_use"), text, Undef, name, id, Undef, Undef)
ToolResult(content, tuid, text) ==
  Block(Str("tool_result"), text, content, Undef, Undef, tuid, Undef)

\* the elements of a content array, as JSON can carry them
Items ==
  { Null, Str("s"),
    TextBlock(Undef), TextBlock(Null), TextBlock(Str("ok")),
    Block(Undef, Str("ok"), Undef, Undef, Undef, Undef, Undef),
    Block(Undef, Undef, Undef, Undef, Undef, Undef, Undef),
    Block(Str("text"), Str("ok"), Str("c"), Undef, Undef, Undef, Undef),
    ToolUse(Undef, Undef, Undef),
    ToolUse(Str("search"), Str("tu1"), Str("t")),
    ToolResult(Null, Str("tu1"), Undef),
    ToolResult(Str("r"), Str("tu1"), Str("t")) }

RECURSIVE SeqsUpTo(_, _)
\* the sequences over S of length at most n
SeqsUpTo(S, n) ==
  IF n = 0 THEN {<<>>}
  ELSE LET shorter == SeqsUpTo(S, n - 1)
       IN shorter \cup {Append(q, x) : q \in {p \in shorter : Len(p) = n - 1}, x \in S}

Contents ==
  {Undef, Null, Str(""), Str("hi")} \cup {Arr(q) : q \in SeqsUpTo(Items, MaxBlocks)}

Call(name, id) == ToolCall(Str(id), Undef, Str(name))

\* role, tool_calls and tool_call_id of a message
Headers ==
  { <<"user", Undef, Undef>>, <<"system", Undef, Undef>>,
    <<"assistant", Undef, Undef>>,
    <<"assistant", Arr(<<Call("search", "c1")>>), Undef>>,
    <<"assistant", Arr(<<Call("search", "c1"), Call("read", "c2")>>), Undef>>,
    <<"tool", Undef, Str("c1")>>,
    <<"tool", Arr(<<Call("search", "c1")>>), Undef>>,
    <<"user", Undef, Str("c1")>> }

\* the earlier turns of a conversation
HistoryMsgs ==
  { Msg(Str("user"), Str("hi"), Undef, Undef),
    Msg(Str("assistant"), Null, Arr(<<Call("search", "c1")>>), Undef) }

Urls == {"/v1/messages", "/v1/responses"}

\* a body whose messages (or whose input) are the list l
NormBody(field, l) ==
  IF field = "messages" THEN Body(Str("m"), Arr(l), Undef, Undef, Undef)
  ELSE Body(Str("m"), Undef, Arr(l), Undef, Undef)

\* A request arrives with, as its messages or as its input, a conversation
\* (earlier turns, then any message), no message at all, or a string input.
InitNorm ==
  /\ \E u \in Urls, field \in {"messages", "input"} :
       \/ \E past \in SeqsUpTo(HistoryMsgs, MaxMsgs - 1), h \in Headers, c \in Contents :
            req = [url |-> u,
                   body |-> NormBody(field, Append(past, Msg(Str(h[1]), c, h[2], h[3])))]
       \/ req = [url |-> u, body |-> NormBody(field, <<>>)]
       \/ req = [url |-> u, body |-> Body(Str("m"), Undef, Str("hi"), Undef, Undef)]
  /\ orig = req.body
  /\ pc = "nullfix"
  /\ steps = <<>>
  /\ cfg = NoConfig
  /\ rt = RouterIdle
  /\ script = NoScript
  /\ decision = NoDecision
  /\ forwarded = NotForwarded
  /\ cancelled = FALSE
  /\ service = NotStarted
  /\ TransformerConstructed
  /\ clients = <<>>

NextNorm == NullContentFix

SpecNorm == InitNorm /\ [][NextNorm]_vars

-----------------------------------------------------------------------------
(* Claims about the normaliser, checked under SpecNorm *)

\* the null-content hook has run on the request
HookRan == pc \notin {"auth", "nullfix"}

\* a message in the strict shape: a non-empty array of objects with string texts
StrictShape(msg) ==
  /\ IsArr(msg.content)
  /\ Len(msg.content.a) > 0
  /\ \A i \in 1..Len(msg.content.a) :
       /\ msg.content.a[i].t = "object"
       /\ IsStr(msg.content.a[i].text)

\* C1: after the messages pass of the preHandler (Pass A), no message of
\* body.messages has null or undefined content.
C1_NoAbsentAfterPassA ==
  HookRan =>
    \A i \in 1..Len(ListOf(req.body.messages)) :
      ~IsNullish(req.body.messages.a[i].content)

\* C1 witness: the hook has run on a list that held a message with absent content
C1_Witness ==
  /\ HookRan
  /\ \E i \in 1..Len(ListOf(orig.messages)) :
       /\ IsNullish(orig.messages.a[i].content)
       /\ orig.messages.a[i].role = Str("assistant")
       /\ ~IsArr(orig.messages.a[i].tool_calls)
       /\ req.body.messages.a[i].content = Str("[Continuing...]")

\* C2: after the input pass of the preHandler (Pass B, with or without the
\* final safety pass), every message of body.input has a non-empty array
\* content whose elements are objects with a string text.
C2_StrictShapeAfterPassB ==
  HookRan =>
    \A i \in 1..Len(ListOf(req.body.input)) : StrictShape(req.body.input.a[i])

\* C2 witness: the final pass included, on content that held a null element,
\* a bare string and a tool block
C2_Witness ==
  /\ HookRan
  /\ isResponsesApi(req.url)
  /\ \E i \in 1..Len(ListOf(orig.input)) :
       /\ IsArr(orig.input.a[i].content)
       /\ \E j, k \in 1..Len(orig.input.a[i].content.a) :
            /\ orig.input.a[i].content.a[j] = Null
            /\ orig.input.a[i].content.a[k].t = "object"
            /\ orig.input.a[i].content.a[k].type = Str("tool_use")
       /\ StrictShape(req.body.input.a[i])

\* C9: the messages pass (Pass A) is idempotent: applied to the messages it
\* produced, it returns them unchanged.
C9_PassAIdempotent ==
  HookRan =>
    \A g \in GenIds : fixMessages(req.body.messages, g) = req.body.messages

\* C10: the input pass (Pass B, with the final safety pass where it applies)
\* is idempotent: applied to the input it produced, it returns it unchanged.
C10_PassBIdempotent ==
  HookRan /\ pc # "failed" => fixInput(req.body.input, req.url) = req.body.input

-----------------------------------------------------------------------------
(* The routing engine (utils/router): TokenEstimator, SubagentTagExtractor,  *)
(* the rules and their order                                                 *)

\* the delimiters of the subagent tag
OpenTag == "<ROUTE>"
CloseTag == "</ROUTE>"

NoPair == [ok |-> FALSE, provider |-> "", model |-> ""]

\* a provider and a model, both of which must be non-empty
pairOf(left, right) ==
  IF left = "" \/ right = "" THEN NoPair
  ELSE [ok |-> TRUE, provider |-> left, model |-> right]

\* "provider,model" split on its first comma
splitPair(s, trimmed) ==
  LET at(i) ==
        IF i = 0 THEN NoPair
        ELSE IF trimmed
             THEN pairOf(Trim(SubSeq(s, 1, i - 1)), Trim(SubSeq(s, i + 1, Len(s))))
             ELSE pairOf(SubSeq(s, 1, i - 1), SubSeq(s, i + 1, Len(s)))
  IN at(IndexOf(s, ","))

\* a value that is a well-formed "provider,model" string
parseTarget(v) == IF IsStr(v) THEN splitPair(v.s, FALSE) ELSE NoPair

\* the extractor's answer when the text holds no well-formed tag
NoTag(text) == [found |-> FALSE, provider |-> "", model |-> "", remainingText |-> text]

\* SubagentTagExtractor.extract(text)
extract(text) ==
  LET result(open, close, pair) ==
        IF pair.ok
        THEN [found |-> TRUE, provider |-> pair.provider, model |-> pair.model,
              remainingText |-> TrimRight(SubSeq(text, 1, open - 1))
                                  \o TrimLeft(SubSeq(text, close + Len(CloseTag), Len(text)))]
        ELSE NoTag(text)
      closedAt(open, close) ==
        IF close = 0 THEN NoTag(text)
        ELSE result(open, close,
                    splitPair(SubSeq(text, open + Len(OpenTag), close - 1), TRUE))
      openedAt(open) ==
        IF open = 0 THEN NoTag(text)
        ELSE closedAt(open, IndexFrom(text, CloseTag, open + Len(OpenTag)))
  IN openedAt(IndexOf(text, OpenTag))

\* a Text block the extractor can read
IsTextBlock(item) ==
  item.t = "object" /\ item.type = Str("text") /\ IsStr(item.text)

\* the extractor on a content value: a string, or each Text block of a block
\* list on its own; the first block that matches wins and only it is rewritten
extractFromContent(content) ==
  LET none == [found |-> FALSE, provider |-> "", model |-> "", content |-> content]
      ofString(e) ==
        IF e.found
        THEN [found |-> TRUE, provider |-> e.provider, model |-> e.model,
              content |-> Str(e.remainingText)]
        ELSE none
      ofBlocks(es) ==
        LET hits == {i \in DOMAIN es : es[i].found}
            first == CHOOSE k \in hits : \A j \in hits : k <= j
        IN IF hits = {} THEN none
           ELSE [found |-> TRUE, provider |-> es[first].provider, model |-> es[first].model,
                 content |-> Arr([content.a EXCEPT
                                    ![first].text = Str(es[first].remainingText)])]
  IN IF IsStr(content) THEN ofString(extract(content.s))
     ELSE IF IsArr(content)
          THEN ofBlocks([i \in 1..Len(content.a) |->
                           IF IsTextBlock(content.a[i]) THEN extract(content.a[i].text.s)
                           ELSE NoTag("")])
          ELSE none

\* the designated message: the most recent user-authored one (0: none)
designated(list) ==
  LET users == {i \in 1..Len(list) : list[i].role = Str("user")}
  IN IF users = {} THEN 0 ELSE CHOOSE k \in users : \A j \in users : j <= k

\* the fixed overheads of the estimate, per message and per tool
PerMessageOverhead == 1
PerToolOverhead == 1

\* the length-based estimate of a text
tokens(s) == Len(s) \div 4

RECURSIVE Sum(_)
Sum(q) == IF Len(q) = 0 THEN 0 ELSE Head(q) + Sum(Tail(q))

\* the textual payload of a content value; Absent contributes nothing
contentTokens(content) ==
  IF IsStr(content) THEN tokens(content.s)
  ELSE IF IsArr(content) THEN
    Sum([i \in 1..Len(content.a) |->
           LET item == content.a[i]
           IN IF IsTextBlock(item) THEN tokens(item.text.s)
              ELSE IF item.t = "object" /\ item.type = Str("tool_result")
                      /\ IsStr(item.content)
                   THEN tokens(item.content.s)
              ELSE 0])
  ELSE 0

\* a tool definition: { name, description, type }
Tool(name, description, type) ==
  [t |-> "object", name |-> name, description |-> description, type |-> type]

\* TokenEstimator.estimate(messages, tools)
estimate(messages, tools) ==
  Sum([i \in 1..Len(ListOf(messages)) |->
         contentTokens(messages.a[i].content) + PerMessageOverhead])
    + Sum([i \in 1..Len(ListOf(tools)) |->
             tokens(JsString(Or(tools.a[i].name, Str(""))))
               + tokens(JsString(Or(tools.a[i].description, Str(""))))
               + PerToolOverhead])

\* what a rule answers: a committed decision, or nothing; with the messages
\* as the rule leaves them
Commit(pair, source, messages) ==
  [commit |-> TRUE, provider |-> pair.provider, model |-> pair.model,
   source |-> source, messages |-> messages]

FallThrough(messages) ==
  [commit |-> FALSE, provider |-> "", model |-> "", source |-> "",
   messages |-> messages]

\* commitTo without its check of the target
commitTo_Unchecked(pair, source, messages) == Commit(pair, source, messages)

\* commit that target, unless it is empty, missing or malformed
commitTo(pair, source, messages) ==
  IF pair.ok THEN Commit(pair, source, messages) ELSE FallThrough(messages)

\* commit the route of that name
viaRoute(c, name, source, messages) ==
  commitTo(parseTarget(c.routes[name]), source, messages)

\* explicit override: request.model is "provider,model"
ruleExplicit(b, c) == commitTo(parseTarget(b.model), "explicit", b.messages)

\* the custom script's answers
ScriptResults ==
  { [kind |-> "returns", value |-> Str("custom,script-model")],
    [kind |-> "returns", value |-> Null],
    [kind |-> "returns", value |-> Str("malformed")],
    [kind |-> "throws", value |-> Undef],
    [kind |-> "timeout", value |-> Undef] }

\* ruleCustomScript with a failure of the script answered by routes.default
ruleCustomScript_FailureIsDefault(b, c, sr) ==
  IF Truthy(c.customRouterPath)
  THEN IF sr.kind = "returns"
       THEN commitTo(parseTarget(sr.value), "customScript", b.messages)
       ELSE viaRoute(c, "default", "default", b.messages)
  ELSE FallThrough(b.messages)

\* custom script: a well-formed "provider,model" answer commits; null, a
\* malformed value, an exception and a timeout fall through
ruleCustomScript(b, c, sr) ==
  IF Truthy(c.customRouterPath) /\ sr.kind = "returns"
  THEN commitTo(parseTarget(sr.value), "customScript", b.messages)
  ELSE FallThrough(b.messages)

\* subagent tag: a match in the designated message commits and strips the tag
ruleSubagentTag(b, c) ==
  LET list == ListOf(b.messages)
      on(d, e) ==
        IF e.found
        THEN Commit(e, "subagentTag", Arr([list EXCEPT ![d].content = e.content]))
        ELSE FallThrough(b.messages)
      at(d) == IF d = 0 THEN FallThrough(b.messages)
               ELSE on(d, extractFromContent(list[d].content))
  IN at(designated(list))

\* ruleTokenThreshold that, when it commits, keeps only the last message
ruleTokenThreshold_Truncates(b, c) ==
  IF estimate(b.messages, b.tools) > c.longContextThresholdTokens
  THEN viaRoute(c, "longContext", "tokenThreshold",
                Arr(SubSeq(b.messages.a, Len(b.messages.a), Len(b.messages.a))))
  ELSE FallThrough(b.messages)

\* token threshold: an estimate above the threshold commits routes.longContext
ruleTokenThreshold(b, c) ==
  IF estimate(b.messages, b.tools) > c.longContextThresholdTokens
  THEN viaRoute(c, "longContext", "tokenThreshold", b.messages)
  ELSE FallThrough(b.messages)

\* a tool definition that can search the web
hasWebSearch(tools) ==
  \E i \in 1..Len(ListOf(tools)) :
    IsStr(tools.a[i].type) /\ Includes(tools.a[i].type.s, "web_search")

\* model heuristics, in their fixed order: the first that matches names the route
heuristicRoute(b) ==
  IF IsStr(b.model) /\ Includes(Lower(b.model.s), "haiku") THEN "background"
  ELSE IF Truthy(b.thinking) THEN "think"
  ELSE IF hasWebSearch(b.tools) THEN "webSearch"
  ELSE ""

ruleModelHeuristic(b, c) ==
  LET via(name) == IF name = "" THEN FallThrough(b.messages)
                   ELSE viaRoute(c, name, "modelHeuristic", b.messages)
  IN via(heuristicRoute(b))

\* default: routes.default
ruleDefault(b, c) == viaRoute(c, "default", "default", b.messages)

\* the rules in another order: explicit override first, the tag before the tokens
RuleOrder_ExplicitFirst ==
  <<"explicit", "customScript", "subagentTag", "tokenThreshold", "modelHeuristic",
    "default">>

\* the order in which the engine evaluates its rules
RuleOrder ==
  <<"customScript", "explicit", "tokenThreshold", "subagentTag", "modelHeuristic",
    "default">>

evalRule(name, b, c, sr) ==
  CASE name = "explicit" -> ruleExplicit(b, c)
    [] name = "customScript" -> ruleCustomScript(b, c, sr)
    [] name = "subagentTag" -> ruleSubagentTag(b, c)
    [] name = "tokenThreshold" -> ruleTokenThreshold(b, c)
    [] name = "modelHeuristic" -> ruleModelHeuristic(b, c)
    [] OTHER -> ruleDefault(b, c)

\* rule i cannot answer before the custom script has (the one suspension point)
suspendsAt(i, c) == RuleOrder[i] = "customScript" /\ Truthy(c.customRouterPath)

\* the engine's answer: a rule committed, no rule did, or the script is awaited
Outcome(kind, i, o) == [kind |-> kind, at |-> i, out |-> o]

RECURSIVE runFrom(_, _, _)
\* the rules from the i-th on, until one commits, the script must be awaited,
\* or none is left (MissingRouteError)
runFrom(i, b, c) ==
  LET after(o) == IF o.commit THEN Outcome("commit", i, o) ELSE runFrom(i + 1, b, c)
  IN IF i > Len(RuleOrder) THEN Outcome("error", i, FallThrough(b.messages))
     ELSE IF suspendsAt(i, c) THEN Outcome("suspend", i, FallThrough(b.messages))
     ELSE after(evalRule(RuleOrder[i], b, c, NoScript))

\* the engine after the script called at rule i has answered sr
resumeFrom(i, b, c, sr) ==
  LET after(o) == IF o.commit THEN Outcome("commit", i, o) ELSE runFrom(i + 1, b, c)
  IN after(ruleCustomScript(b, c, sr))

\* decide(request, config) as one call, the script answering sr when it is asked
decide(b, c, sr) ==
  LET go(r) == IF r.kind = "suspend" THEN resumeFrom(r.at, b, c, sr) ELSE r
  IN go(runFrom(1, b, c))

-----------------------------------------------------------------------------
(* The hook chain of index.ts after the null-content preHandler: the router  *)
(* preHandler, the custom script's answer, the downstream handler            *)

\* req.url.startsWith("/v1/messages")
isMessagesUrl(url) == SubSeq(url, 1, Len("/v1/messages")) = "/v1/messages"

MissingRouteError ==
  [kind |-> "MissingRouteError", provider |-> "", model |-> "", source |-> ""]

\* the RoutingDecision (or the error) a finished run of the engine returns
decisionOf(r) ==
  IF r.kind = "commit"
  THEN [kind |-> "decision", provider |-> r.out.provider, model |-> r.out.model,
        source |-> r.out.source]
  ELSE MissingRouteError

\* the engine discards the script's answer for a request that was cancelled
discards(isCancelled) == isCancelled

\* the router preHandler: router(req, reply, config) is called and not awaited,
\* so the hook completes when the engine finishes or suspends on the script
RouterHook ==
  /\ pc = "router"
  /\ pc' = "handler"
  /\ IF isMessagesUrl(req.url)
     THEN \E r \in {runFrom(1, req.body, cfg)} :
            IF r.kind = "suspend"
            THEN /\ rt' = [phase |-> "awaiting", at |-> r.at]
                 /\ UNCHANGED <<req, decision, steps>>
            ELSE /\ rt' = [phase |-> "done", at |-> r.at]
                 /\ decision' = decisionOf(r)
                 /\ req' = [req EXCEPT !.body.messages = r.out.messages]
                 /\ steps' = Append(steps, "route")
     ELSE UNCHANGED <<req, rt, decision, steps>>
  /\ UNCHANGED <<orig, cfg, script, forwarded, cancelled, conv, service>>

\* the custom script answers (or throws, or times out) and the engine goes on
ScriptReturns ==
  /\ rt.phase = "awaiting"
  /\ \E sr \in ScriptResults :
       \E r \in {resumeFrom(rt.at, req.body, cfg, sr)} :
          /\ script' = sr
          /\ IF discards(cancelled)
             THEN /\ rt' = [phase |-> "discarded", at |-> rt.at]
                  /\ UNCHANGED <<req, decision, steps>>
             ELSE /\ rt' = [phase |-> "done", at |-> r.at]
                  /\ decision' = decisionOf(r)
                  /\ req' = [req EXCEPT !.body.messages = r.out.messages]
                  /\ steps' = Append(steps, "route")
  /\ UNCHANGED <<pc, orig, cfg, forwarded, cancelled, conv, service>>

\* the client cancels the request while the custom-script call is outstanding;
\* the hook chain of index.ts holds no handler of this event
Cancel ==
  /\ rt.phase = "awaiting"
  /\ ~cancelled
  /\ cancelled' = TRUE
  /\ steps' = Append(steps, "cancel")
  /\ UNCHANGED <<req, pc, orig, cfg, rt, script, decision, forwarded, conv, service>>

\* the request is handed to the downstream handler
Handoff ==
  /\ pc = "handler"
  /\ pc' = "done"
  /\ forwarded' = [sent |-> TRUE, body |-> req.body, decision |-> decision]
  /\ steps' = Append(steps, "handoff")
  /\ UNCHANGED <<req, orig, cfg, rt, script, decision, cancelled, conv, service>>

-----------------------------------------------------------------------------
(* The requests and configurations of the pipeline's specification *)

Models == {Str("acme,fast-model"), Str("claude-3-5-Haiku"), Str("gpt-4o"), Undef}

\* the content of the most recent user message
UserContents ==
  { Str("hi"), Null,
    Str("a long message that carries no routing tag"),
    Str("<ROUTE>acme,fast-model</ROUTE>do the thing"),
    Str("<ROUTE>nocomma</ROUTE>hi"),
    Str("<ROUTE>acme,fast-model</ROUTE><ROUTE>bg,small</ROUTE>go"),
    Arr(<<TextBlock(Str("ok")), TextBlock(Str("see <ROUTE> sub , agent </ROUTE> go"))>>) }

\* the user messages that precede the most recent one
Earlier == {Msg(Str("user"), Str("<ROUTE>old,tag</ROUTE>earlier"), Undef, Undef)}

\* what follows the most recent user message, and the body's input list
Shapes ==
  { <<(<<>>), Undef>>,
    <<(<<Msg(Str("assistant"), Null, Arr(<<Call("search", "c1")>>), Undef)>>), Undef>>,
    <<(<<>>), Arr(<<Msg(Str("user"), Null, Undef, Undef)>>)>> }

\* thinking and tools of a request
Capabilities ==
  { <<Undef, Undef>>, <<EmptyObj, Undef>>,
    <<Undef, Arr(<<Tool(Str("search"), Str("web"), Str("web_search_20250305"))>>)>> }

RouteValues(target) == {Str(target), Undef}

Thresholds == {5, 60000}

Paths == {Undef, Str("custom-router.js")}

\* the routes table: the heuristics' routes are configured together or not at all
RouteTables ==
  { Routes(d, IF h THEN Str("bg,small") ELSE Undef, IF h THEN Str("think,deep") ELSE Undef,
           lc, IF h THEN Str("search,web") ELSE Undef) :
      d \in RouteValues("def,default-model"), lc \in RouteValues("long,context"),
      h \in BOOLEAN }

Init ==
  /\ \E model \in Models, uc \in UserContents, shape \in Shapes, cap \in Capabilities,
        past \in SeqsUpTo(Earlier, MaxMsgs - 1) :
       LET body == Body(model,
                        Arr(past \o <<Msg(Str("user"), uc, Undef, Undef)>> \o shape[1]),
                        shape[2], cap[1], cap[2])
       IN \/ /\ req = [url |-> "/v1/messages", body |-> body]
             /\ \E routes \in RouteTables, th \in Thresholds, path \in Paths :
                  cfg = Config(routes, th, path)
          \/ /\ req = [url |-> "/v1/responses", body |-> body]
             /\ cfg = Config(Routes(Str("def,default-model"), Undef, Undef, Undef, Undef),
                             60000, Undef)
  /\ orig = req.body
  /\ pc = "nullfix"
  /\ steps = <<>>
  /\ rt = RouterIdle
  /\ script = NoScript
  /\ decision = NoDecision
  /\ forwarded = NotForwarded
  /\ cancelled = FALSE
  /\ service = NotStarted
  /\ TransformerConstructed
  /\ clients = <<>>

Next == NullContentFix \/ RouterHook \/ ScriptReturns \/ Cancel \/ Handoff

Spec == Init /\ [][Next]_vars

-----------------------------------------------------------------------------
(* The routing claims, stated over the request as it arrived, the             *)
(* configuration, the script's answer and the decision                        *)

\* the body the engine is given: the arriving body as the null-content hook leaves it
Routed == fixBody([url |-> req.url, body |-> orig], "tool_1")

RoutingDone == rt.phase = "done"

\* the condition under which each rule, taken alone, commits
ScriptCommits ==
  Truthy(cfg.customRouterPath) /\ script.kind = "returns" /\ parseTarget(script.value).ok

ExplicitCommits == parseTarget(orig.model).ok

AboveThreshold == estimate(Routed.messages, Routed.tools) > cfg.longContextThresholdTokens

TokenCommits == AboveThreshold /\ parseTarget(cfg.routes.longContext).ok

\* the content of the designated message of the arriving request
ArrivedContent == orig.messages.a[designated(orig.messages.a)].content

\* the designated message holds a well-formed tag on arrival
ArrivedTagged == extractFromContent(ArrivedContent).found

HeuristicMatches == heuristicRoute(orig) # ""

HeuristicCommits ==
  HeuristicMatches /\ parseTarget(cfg.routes[heuristicRoute(orig)]).ok

DefaultCommits == parseTarget(cfg.routes.default).ok

\* C3 as stated: the rules are evaluated strictly in the order explicit override,
\* custom script, subagent tag, token threshold, model heuristics, default, and
\* the decision is the one of the first rule in that order that commits.
C3_OrderAsStated ==
  RoutingDone =>
    decision.source =
      IF ExplicitCommits THEN "explicit"
      ELSE IF ScriptCommits THEN "customScript"
      ELSE IF ArrivedTagged THEN "subagentTag"
      ELSE IF TokenCommits THEN "tokenThreshold"
      ELSE IF HeuristicCommits THEN "modelHeuristic"
      ELSE IF DefaultCommits THEN "default"
      ELSE ""

\* C3 as amended: the rules are evaluated strictly in the order custom script,
\* explicit override, token threshold, subagent tag, model heuristics, default,
\* and the decision is the one of the first rule in that order that commits; an
\* explicit "provider,model" value with an estimate above the threshold is
\* decided by the explicit rule, not by longContext, unless the script commits.
C3_OrderAsDocumented ==
  RoutingDone =>
    /\ decision.source =
         IF ScriptCommits THEN "customScript"
         ELSE IF ExplicitCommits THEN "explicit"
         ELSE IF TokenCommits THEN "tokenThreshold"
         ELSE IF ArrivedTagged THEN "subagentTag"
         ELSE IF HeuristicCommits THEN "modelHeuristic"
         ELSE IF DefaultCommits THEN "default"
         ELSE ""
    /\ ExplicitCommits /\ TokenCommits /\ ~ScriptCommits =>
         /\ decision.source = "explicit"
         /\ decision.provider = parseTarget(orig.model).provider
         /\ decision.model = parseTarget(orig.model).model

\* a tagged request above the threshold, without explicit override or script
\* decision, has been routed by the token rule
C3_Witness ==
  /\ RoutingDone
  /\ TokenCommits /\ ArrivedTagged /\ ~ExplicitCommits /\ ~ScriptCommits
  /\ decision.source = "tokenThreshold"

\* C4: every decision the engine returns has a non-empty provider and a
\* non-empty model; a rule whose route is empty or missing in config.routes does
\* not commit; the engine returns MissingRouteError exactly when no rule commits.
C4_DecisionsAreComplete ==
  RoutingDone =>
    /\ decision.kind \in {"decision", "MissingRouteError"}
    /\ decision.kind = "decision" => decision.provider # "" /\ decision.model # ""
    /\ decision.source = "tokenThreshold" => parseTarget(cfg.routes.longContext).ok
    /\ decision.source = "modelHeuristic" => HeuristicCommits
    /\ decision.source = "default" => DefaultCommits
    /\ decision.kind = "MissingRouteError" <=>
         ~(ScriptCommits \/ ExplicitCommits \/ TokenCommits \/ ArrivedTagged
             \/ HeuristicCommits \/ DefaultCommits)

\* a request above the threshold that matches a heuristic, with every route
\* empty, has ended in MissingRouteError
C4_Witness ==
  /\ RoutingDone
  /\ AboveThreshold /\ HeuristicMatches
  /\ decision = MissingRouteError

\* the script was called and did not decide: it threw, timed out, or returned
\* null or a malformed value
ScriptFailed ==
  /\ Truthy(cfg.customRouterPath)
  /\ script.kind \in {"returns", "throws", "timeout"}
  /\ ~ScriptCommits

\* the same configuration with no custom script configured
WithoutScript == [cfg EXCEPT !.customRouterPath = Undef]

\* no rule but the default can commit
OnlyDefaultApplies ==
  ~ExplicitCommits /\ ~ArrivedTagged /\ ~AboveThreshold /\ ~HeuristicMatches

\* C5: if the custom script throws, times out, or returns null or a malformed
\* value, the engine raises nothing and its decision and messages are those of
\* the same request and configuration with no custom script configured; with no
\* explicit override, no tag, an estimate at or below the threshold and no
\* heuristic match, that outcome is routes.default.
C5_ScriptFailureIsNoScript ==
  RoutingDone /\ ScriptFailed =>
    \E alone \in {runFrom(1, Routed, WithoutScript)} :
      /\ decision = decisionOf(alone)
      /\ req.body.messages = alone.out.messages
      /\ OnlyDefaultApplies /\ DefaultCommits =>
           /\ decision.source = "default"
           /\ decision.provider = parseTarget(cfg.routes.default).provider
           /\ decision.model = parseTarget(cfg.routes.default).model

\* the script threw for a request that carries an explicit override, and the
\* override decided
C5_Witness ==
  /\ RoutingDone /\ ScriptFailed
  /\ script.kind = "throws"
  /\ ExplicitCommits
  /\ decision.source = "explicit"

\* C6: a well-formed tag in the designated message never reaches the upstream
\* provider as text: whichever rule committed the decision, the designated
\* message is forwarded with the tag removed.
C6_TagNeverForwarded ==
  forwarded.sent /\ forwarded.decision.kind = "decision" /\ ArrivedTagged =>
    forwarded.body.messages.a[designated(orig.messages.a)].content
      = extractFromContent(ArrivedContent).content

\* step a occurs before step b whenever both occur
Before(a, b) ==
  \A i, j \in DOMAIN steps : steps[i] = a /\ steps[j] = b => i < j

Occurs(a) == \E i \in DOMAIN steps : steps[i] = a

\* C8 as stated: the steps occur in the order Pass A, routing decision, Pass B,
\* hand-off; Pass B is never applied before the routing decision has been made.
C8_OrderAsStated ==
  /\ Before("passA", "route") /\ Before("route", "passB") /\ Before("passB", "handoff")
  /\ \A j \in DOMAIN steps :
       steps[j] = "passB" => \E i \in 1..(j - 1) : steps[i] = "route"

\* C8 as amended: Pass A precedes Pass B, and both precede the start of routing
\* and the hand-off; Pass B is applied exactly when the body carries an input
\* list, whatever the routing decision, and the hand-off receives its result.
C8_PassesBeforeRouting ==
  /\ Before("passA", "passB")
  /\ Before("passA", "route") /\ Before("passB", "route")
  /\ Before("passA", "handoff") /\ Before("passB", "handoff")
  /\ HookRan => (Occurs("passB") <=> IsArr(orig.input))
  /\ forwarded.sent => forwarded.body.input = fixInput(orig.input, req.url)

\* a request with an input list has been through both passes, then routing,
\* then the hand-off
C8_Witness ==
  /\ forwarded.sent
  /\ IsArr(orig.input)
  /\ forwarded.body.input # orig.input
  /\ steps = <<"passA", "passB", "route", "handoff">>

-----------------------------------------------------------------------------
(* The Responses API v2 transformer (custom-responses-api-v2.js) *)

\* the options the constructor sets
Options == [continuousExecution |-> TRUE, maxIterations |-> 50, maxTokensLimit |-> 100000]

\* a request to the transformer: { model, messages, max_tokens, response_format, stream }
TRequest(model, messages, max_tokens, response_format, stream) ==
  [t |-> "object", model |-> model, messages |-> messages, max_tokens |-> max_tokens,
   response_format |-> response_format, stream |-> stream]

\* the context of a call: { conversationId }
Context(id) == [t |-> "object", conversationId |-> id]

\* context?.conversationId || 'default'
conversationIdOf(context) ==
  IF context.t = "object" /\ Truthy(context.conversationId)
  THEN context.conversationId.s
  ELSE "default"

\* the state a conversation is created with
NewState(request) ==
  [t |-> "object", messages |-> Arr(<<>>), model |-> Or(request.model, Str("o3")),
   toolCalls |-> Arr(<<>>), iterations |-> 0,
   maxTokens |-> IF Truthy(request.max_tokens) THEN request.max_tokens.n ELSE 100000,
   isExecuting |-> FALSE]

\* content.includes(pat), on a string or on an array
contentIncludes(content, pat) ==
  IF IsStr(content) THEN Includes(content.s, pat)
  ELSE IF IsArr(content) THEN \E i \in 1..Len(content.a) : content.a[i] = Str(pat)
  ELSE FALSE

isToolResultMessage(request) ==
  IF ~Truthy(request.messages) THEN FALSE
  ELSE LET list == ListOf(request.messages)
           lastMessage == list[Len(list)]
       IN IF Len(list) = 0 THEN FALSE
          ELSE IF ~Truthy(lastMessage) THEN FALSE
          ELSE IF lastMessage.role = Str("tool") THEN TRUE
          ELSE \/ contentIncludes(Or(lastMessage.content, Str("")), "[Tool Result")
               \/ contentIncludes(Or(lastMessage.content, Str("")), "Tool call result:")

\* msg.role === 'assistant' ? 'output_text' : 'input_text'
textType(msg) == IF msg.role = Str("assistant") THEN "output_text" ELSE "input_text"

\* `[Tool: ${tc.function.name} (${tc.id})]`
toolCallText(tc) == "[Tool: " \o JsString(tc.fname) \o " (" \o JsString(tc.id) \o ")]"

\* c.text || c.content || ''
blockText(c) == IF c.t = "object" THEN Or(Or(c.text, c.content), Str("")) ELSE Str("")

\* the content list convertMessagesToResponsesFormat gives one message
formatContent(msg) ==
  IF msg.role = Str("tool")
  THEN <<TypeText("input_text", "[Tool Result " \o JsString(msg.tool_call_id) \o "]\n"
                                  \o JsString(msg.content))>>
  ELSE IF Truthy(msg.tool_calls)
  THEN <<TypeText(textType(msg),
                  IF Truthy(msg.content)
                  THEN JsString(msg.content) \o "\n"
                         \o Join(Map(ListOf(msg.tool_calls), toolCallText), "\n")
                  ELSE Join(Map(ListOf(msg.tool_calls), toolCallText), "\n"))>>
  ELSE IF IsStr(msg.content)
  THEN <<Block(Str(textType(msg)), msg.content, Undef, Undef, Undef, Undef, Undef)>>
  ELSE IF IsArr(msg.content)
  THEN [i \in 1..Len(msg.content.a) |->
          Block(Str(textType(msg)), blockText(msg.content.a[i]),
                Undef, Undef, Undef, Undef, Undef)]
  ELSE <<>>

formatMessage(msg) ==
  [t |-> "object", role |-> IF msg.role = Str("tool") THEN Str("user") ELSE msg.role,
   content |-> Arr(formatContent(msg))]

convertMessagesToResponsesFormat(messages) == Arr(Map(ListOf(messages), formatMessage))

\* the property reads of the conversion that raise a TypeError: a message, a
\* tool call or a content block that is null or undefined, a tool call without
\* its function
formatThrows(msg) ==
  \/ IsNullish(msg)
  \/ /\ msg.role # Str("tool")
     /\ IF Truthy(msg.tool_calls)
        THEN \E i \in 1..Len(ListOf(msg.tool_calls)) :
               \/ IsNullish(msg.tool_calls.a[i])
               \/ msg.tool_calls.a[i].fname = Undef
        ELSE /\ IsArr(msg.content)
             /\ \E i \in 1..Len(msg.content.a) : IsNullish(msg.content.a[i])

convertThrows(messages) ==
  \E i \in 1..Len(ListOf(messages)) : formatThrows(messages.a[i])

\* Math.min
Min(a, b) == IF a < b THEN a ELSE b

calculateMaxTokens(state) ==
  Min((IF state.maxTokens # 0 THEN state.maxTokens ELSE 15000)
        + Len(state.toolCalls.a) * 2000 + Len(ListOf(state.messages)) * 100,
      Options.maxTokensLimit)

\* the rejection of a call that threw
Thrown == [t |-> "TypeError"]

\* the conversation state transformRequestIn leaves, from the one it found
stateAfter(request, found) ==
  [(IF Truthy(found) THEN found ELSE NewState(request)) EXCEPT
     !.isExecuting = IF isToolResultMessage(request) THEN TRUE ELSE @,
     !.messages = IF Truthy(request.messages) THEN request.messages ELSE @]

\* the transformed request, built from the conversation state
transformedOf(request, state) ==
  IF convertThrows(state.messages) THEN Thrown
  ELSE [t |-> "object", model |-> state.model,
        input |-> convertMessagesToResponsesFormat(state.messages),
        max_output_tokens |-> calculateMaxTokens(state),
        reasoning |-> [effort |-> "high"],
        text |-> IF Truthy(request.response_format)
                 THEN [format |-> request.response_format] ELSE Undef,
        stream |-> IF Truthy(request.stream) THEN Bool(TRUE) ELSE Undef]

\* transformRequestIn(request, context) on the map of conversation states: the
\* map it leaves and what it returns
transformRequestIn(request, context, states) ==
  LET with(id, state) ==
        [states |-> [states EXCEPT ![id] = state],
         result |-> transformedOf(request, state)]
      on(id) == with(id, stateAfter(request, states[id]))
  IN on(conversationIdOf(context))

\* a client calls transformRequestIn; the method has no await, so it runs as
\* one step
TransformRequestIn(i) ==
  /\ clients[i].phase = "new"
  /\ \E r \in {transformRequestIn(clients[i].request, clients[i].context,
                                  conversationStates)} :
       /\ conversationStates' = r.states
       /\ clients' = [clients EXCEPT
                        ![i].out = r.result,
                        ![i].phase = IF r.result = Thrown THEN "failed" ELSE "sent"]
  /\ UNCHANGED <<executionContexts, pipe, service>>

-----------------------------------------------------------------------------
(* The transformer's reading of a response: extractToolCalls and its three *)
(* regular expressions                                                      *)

Alphabet == "abcdefghijklmnopqrstuvwxyzABCDEFGHIJKLMNOPQRSTUVWXYZ0123456789_"

\* the characters \w matches
WordChars == {SubSeq(Alphabet, i, i) : i \in 1..Len(Alphabet)}

\* the characters \d matches
Digits == {"0", "1", "2", "3", "4", "5", "6", "7", "8", "9"}

\* pat occurs in s at position i
StartsAt(s, i, pat) ==
  i + Len(pat) - 1 <= Len(s) /\ SubSeq(s, i, i + Len(pat) - 1) = pat

RECURSIVE RunWhile(_, _, _)
\* the first position >= i whose character is not in ok: the end of a greedy
\* run of a character class
RunWhile(s, i, ok) ==
  IF i <= Len(s) /\ SubSeq(s, i, i) \in ok THEN RunWhile(s, i + 1, ok) ELSE i

RECURSIVE RunUntil(_, _, _)
\* the first position >= i whose character is in stop: the end of a greedy run
\* of a negated character class
RunUntil(s, i, stop) ==
  IF i <= Len(s) /\ SubSeq(s, i, i) \notin stop THEN RunUntil(s, i + 1, stop) ELSE i

\* no match at a position
NoMatch == [end |-> 0, g1 |-> "", g2 |-> ""]

\* a match: the position after it and its two groups; g2 is "" when the
\* expression has no second group
Match(end, g1, g2) == [end |-> end, g1 |-> g1, g2 |-> g2]

\* /\[Tool: (\w+) \(([^)]+)\)\]/ at position p
matchTool(s, p) ==
  LET close(a, b, c, d) ==
        IF d > c /\ StartsAt(s, d, ")]")
        THEN Match(d + 2, SubSeq(s, a, b - 1), SubSeq(s, c, d - 1)) ELSE NoMatch
      open(a, b) ==
        IF b > a /\ StartsAt(s, b, " (")
        THEN close(a, b, b + 2, RunUntil(s, b + 2, {")"})) ELSE NoMatch
      name(a) == open(a, RunWhile(s, a, WordChars))
  IN IF StartsAt(s, p, "[Tool: ") THEN name(p + Len("[Tool: ")) ELSE NoMatch

\* /\[Executing \d+ tools?: ([^\]]+)\]/ at position p
matchExecuting(s, p) ==
  LET close(c, d) ==
        IF d > c /\ StartsAt(s, d, "]")
        THEN Match(d + 1, SubSeq(s, c, d - 1), "") ELSE NoMatch
      colon(c) ==
        IF StartsAt(s, c, ": ") THEN close(c + 2, RunUntil(s, c + 2, {"]"})) ELSE NoMatch
      word(b) ==
        IF StartsAt(s, b, " tools") THEN colon(b + Len(" tools"))
        ELSE IF StartsAt(s, b, " tool") THEN colon(b + Len(" tool"))
        ELSE NoMatch
      count(a, b) == IF b > a THEN word(b) ELSE NoMatch
      digits(a) == count(a, RunWhile(s, a, Digits))
  IN IF StartsAt(s, p, "[Executing ") THEN digits(p + Len("[Executing ")) ELSE NoMatch

\* /Tool call: (\w+) with id (\w+)/ at position p
matchToolCall(s, p) ==
  LET id(a, b, c, d) ==
        IF d > c THEN Match(d, SubSeq(s, a, b - 1), SubSeq(s, c, d - 1)) ELSE NoMatch
      with(a, b) ==
        IF b > a /\ StartsAt(s, b, " with id ")
        THEN id(a, b, b + Len(" with id "), RunWhile(s, b + Len(" with id "), WordChars))
        ELSE NoMatch
      name(a) == with(a, RunWhile(s, a, WordChars))
  IN IF StartsAt(s, p, "Tool call: ") THEN name(p + Len("Tool call: ")) ELSE NoMatch

\* the three expressions, in the order of the patterns array
Patterns == <<"tool", "executing", "toolCall">>

matchAt(pattern, s, p) ==
  CASE pattern = "tool" -> matchTool(s, p)
    [] pattern = "executing" -> matchExecuting(s, p)
    [] OTHER -> matchToolCall(s, p)

RECURSIVE execAll(_, _, _)
\* the matches the loop `while ((match = pattern.exec(content)) !== null)`
\* finds with a global expression, from position p on
execAll(pattern, s, p) ==
  LET step(m) ==
        IF m = NoMatch THEN execAll(pattern, s, p + 1)
        ELSE <<m>> \o execAll(pattern, s, m.end)
  IN IF p > Len(s) THEN <<>> ELSE step(matchAt(pattern, s, p))

\* a response: { content, choices: [{ message }], output, requiresContinuation,
\* toolCalls }; message is choices?.[0]?.message
Response(content, message, output) ==
  [t |-> "object", content |-> content, message |-> message, output |-> output,
   requiresContinuation |-> Undef, toolCalls |-> Undef]

\* an item of response.output: { type, id, function: { name }, content: [{ text }] };
\* fname is function?.name and text is content?.[0]?.text
OutputItem(type, id, fname, text) ==
  [t |-> "object", type |-> type, id |-> id, name |-> Undef, fname |-> fname,
   text |-> text]

\* response.choices?.[0]?.message?.<field>
messageField(response, field) ==
  IF response.message.t = "object" THEN response.message[field] ELSE Undef

\* o.content?.[0]?.text || ''
itemText(o) == JsString(Or(o.text, Str("")))

getResponseContent(response) ==
  IF Truthy(response.content) THEN JsString(response.content)
  ELSE IF Truthy(messageField(response, "content"))
  THEN JsString(messageField(response, "content"))
  ELSE IF Len(ListOf(response.output)) > 0
  THEN Join(Map(ListOf(response.output), itemText), "\n")
  ELSE ""

\* the tool call pushed for one match: match[2] || `call_${Date.now()}_...`
callOfMatch(m, gen) ==
  ToolCall(Str(IF m.g2 # "" THEN m.g2 ELSE gen), Undef, Str(m.g1))

\* the matches of all three patterns in the text, pattern by pattern
callsInText(s, gen) ==
  LET of(ms) == [i \in 1..Len(ms) |-> callOfMatch(ms[i], gen)]
  IN of(execAll(Patterns[1], s, 1)) \o of(execAll(Patterns[2], s, 1))
       \o of(execAll(Patterns[3], s, 1))

\* the items of response.output whose type is 'tool_call'
RECURSIVE toolCallItems(_)
toolCallItems(q) ==
  IF Len(q) = 0 THEN <<>>
  ELSE IF Head(q).type = Str("tool_call") THEN <<Head(q)>> \o toolCallItems(Tail(q))
  ELSE toolCallItems(Tail(q))

\* extractToolCalls(response): the structured tool_calls field when it is
\* truthy, else the tool_call items of the output followed by the calls
\* written in the text
extractToolCalls(response, gen) ==
  IF Truthy(messageField(response, "tool_calls"))
  THEN ListOf(messageField(response, "tool_calls"))
  ELSE toolCallItems(ListOf(response.output))
         \o callsInText(getResponseContent(response), gen)

\* the execution context transformResponseOut sets up
ExecutionContext(toolCalls) ==
  [t |-> "object", pendingTools |-> Arr(toolCalls), waitingForResults |-> TRUE,
   autoResume |-> TRUE]

\* array.push(item)
Push(array, item) == Arr(Append(ListOf(array), item))

\* the branch of transformResponseOut that marks the response for continuation
markedOut(response, id, state, toolCalls, states, contexts) ==
  [states |-> [states EXCEPT ![id] =
                 [state EXCEPT
                    !.toolCalls = Arr(toolCalls),
                    !.iterations = @ + 1,
                    !.messages = Push(@, Msg(Str("assistant"),
                                             Or(messageField(response, "content"), Str("")),
                                             Arr(toolCalls), Undef))]],
   contexts |-> [contexts EXCEPT ![id] = ExecutionContext(toolCalls)],
   result |-> [response EXCEPT !.requiresContinuation = Bool(TRUE),
                               !.toolCalls = Arr(toolCalls)]]

\* finalOut that clears the execution context of every conversation
finalOut_ClearsAll(response, id, state, states, contexts) ==
  [states |-> [states EXCEPT ![id] =
                 [state EXCEPT
                    !.messages = IF Truthy(response.message)
                                 THEN Push(@, response.message) ELSE @]],
   contexts |-> [k \in DOMAIN contexts |-> Undef],
   result |-> response]

\* the branch that records a final assistant message and clears the context
finalOut(response, id, state, states, contexts) ==
  [states |-> [states EXCEPT ![id] =
                 [state EXCEPT
                    !.messages = IF Truthy(response.message)
                                 THEN Push(@, response.message) ELSE @]],
   contexts |-> [contexts EXCEPT ![id] = Undef],
   result |-> response]

\* transformResponseOut(response, context) on the two maps: the maps it leaves
\* and what it returns
transformResponseOut(response, context, states, contexts, gen) ==
  LET branch(id, state, toolCalls) ==
        IF Len(toolCalls) > 0 /\ Options.continuousExecution
        THEN markedOut(response, id, state, toolCalls, states, contexts)
        ELSE finalOut(response, id, state, states, contexts)
      on(id) ==
        IF ~Truthy(states[id])
        THEN [states |-> states, contexts |-> contexts, result |-> response]
        ELSE branch(id, states[id], extractToolCalls(response, gen))
  IN on(conversationIdOf(context))

\* a tool result: { tool_call_id, content, output }
ExecutedTool(tcid, content, output) ==
  [t |-> "object", tool_call_id |-> tcid, content |-> content, output |-> output]

\* the message handleToolResults pushes for one result
toolMessage(result) ==
  Msg(Str("tool"), Or(Or(result.content, result.output), Str("")), Undef,
      result.tool_call_id)

\* the rejection of handleToolResults when the conversation has no state
NoStateError == [t |-> "Error"]

\* what handleToolResults returns
Continue(request) == [t |-> "object", action |-> "continue", request |-> request]
Wait == [t |-> "object", action |-> "wait", request |-> Undef]

\* the conversation id handleToolResults works on: its parameter defaults to
\* 'default' when undefined
idOrDefault(conversationId) ==
  IF conversationId = Undef THEN "default" ELSE conversationId.s

\* handleToolResults(toolResults, conversationId) on the two maps: the map of
\* states it leaves and what it returns; the execution contexts are only read
handleToolResults(toolResults, conversationId, states, contexts) ==
  LET resumed(r) ==
        [states |-> r.states,
         result |-> IF r.result = Thrown THEN Thrown ELSE Continue(r.result)]
      resume(cid, pushed) ==
        IF Truthy(contexts[cid]) /\ contexts[cid].autoResume
        THEN resumed(transformRequestIn(
                       TRequest(pushed.model, pushed.messages, Num(pushed.maxTokens),
                                Undef, Undef),
                       Context(Str(cid)),
                       [k \in DOMAIN states |-> IF k = cid THEN pushed ELSE states[k]]))
        ELSE [states |-> [k \in DOMAIN states |-> IF k = cid THEN pushed ELSE states[k]],
              result |-> Wait]
      on(cid) ==
        IF ~Truthy(states[cid])
        THEN [states |-> states, result |-> NoStateError]
        ELSE resume(cid, [states[cid] EXCEPT
                            !.messages = Arr(ListOf(@) \o Map(ListOf(toolResults), toolMessage))])
  IN on(idOrDefault(conversationId))

\* the tool rounds the clients go through, all together, before the provider's
\* answers are final
MaxRounds == 1

\* an assistant message of a response
Answer(content, calls) == Msg(Str("assistant"), content, calls, Undef)

\* responses that carry tool calls: in the structured field, as an output item
\* of type tool_call, and written in the text in each of the three forms; and
\* one whose structured field is the empty array beside a call in the text
ToolResponses ==
  { Response(Undef, Answer(Str("reading"),
                           Arr(<<ToolCall(Str("c1"), Undef, Str("read_file"))>>)), Undef),
    Response(Undef, Undef, Arr(<<OutputItem(Str("tool_call"), Str("c3"), Undef, Undef)>>)),
    Response(Undef, Answer(Str("[Tool: grep (c2)]"), Undef), Undef),
    Response(Undef, Answer(Str("[Executing 1 tool: search]"), Undef), Undef),
    Response(Undef, Answer(Str("Tool call: ls with id c4"), Undef), Undef),
    Response(Undef, Answer(Str("[Tool: grep (c2)]"), Arr(<<>>)), Undef) }

\* responses without tool calls: a chat message, and an output message item
FinalResponses ==
  { Response(Undef, Answer(Str("done"), Undef), Undef),
    Response(Undef, Undef, Arr(<<OutputItem(Str("message"), Undef, Undef, Str("done"))>>)) }

\* the responses the provider may give after so many tool rounds
ResponsesAfter(rounds) ==
  IF rounds < MaxRounds THEN ToolResponses \cup FinalResponses ELSE FinalResponses

\* the tool rounds the clients have started
RoundsStarted == clients[1].rounds + clients[2].rounds

\* what a tool's execution may produce as its content
ToolOutputs == {Str("ok"), Undef}

\* the ids `call_${Date.now()}_${Math.random()...}` may produce
CallIds == {"call_1", "call_2"}

\* the provider answers a client's request and the client hands the response to
\* transformResponseOut; the method has no await, so it runs as one step. Once
\* MaxRounds tool rounds have started, the provider's answers are final.
TransformResponseOut(i) ==
  /\ clients[i].phase = "sent"
  /\ \E response \in ResponsesAfter(RoundsStarted), gen \in CallIds :
       \E r \in {transformResponseOut(response, clients[i].context,
                                      conversationStates, executionContexts, gen)} :
          /\ conversationStates' = r.states
          /\ executionContexts' = r.contexts
          /\ clients' = [clients EXCEPT
                           ![i].resp = r.result,
                           ![i].rounds = IF r.result.requiresContinuation = Bool(TRUE)
                                         THEN @ + 1 ELSE @,
                           ![i].phase = IF r.result.requiresContinuation = Bool(TRUE)
                                        THEN "tools" ELSE "done"]
  /\ UNCHANGED <<pipe, service>>

\* the results the client's tool executor gives for the calls of a response
executeTools(toolCalls, output) ==
  Arr([k \in 1..Len(toolCalls) |-> ExecutedTool(toolCalls[k].id, output, Undef)])

\* the results a client may hand over for the calls of a response: those of
\* its tool executor, or none yet
ResultsFor(toolCalls) ==
  {executeTools(toolCalls, output) : output \in ToolOutputs} \cup {Arr(<<>>)}

\* the conversation id a client passes to handleToolResults
idArgument(context) ==
  IF context.t = "object" THEN context.conversationId ELSE Undef

\* a client whose response requires continuation hands tool results to
\* handleToolResults; its only await is on transformRequestIn, which
\* has none, so the state changes in one step
HandleToolResults(i) ==
  /\ clients[i].phase = "tools"
  /\ \E toolResults \in ResultsFor(ListOf(clients[i].resp.toolCalls)) :
       \E r \in {handleToolResults(
                   toolResults,
                   idArgument(clients[i].context),
                   conversationStates, executionContexts)} :
          /\ conversationStates' = r.states
          /\ clients' = [clients EXCEPT
                           ![i].cont = r.result,
                           ![i].phase = IF r.result.t # "object" THEN "failed"
                                        ELSE IF r.result.action = "continue" THEN "sent"
                                        ELSE "waiting"]
  /\ UNCHANGED <<executionContexts, pipe, service>>

-----------------------------------------------------------------------------
(* The calls of the transformer's specification *)

Callers == {1, 2}

TModels == {Undef, Str("gpt-4o"), Str("o4-mini")}

TMessages ==
  { Undef,
    Arr(<<Msg(Str("user"), Str("hi"), Undef, Undef)>>),
    Arr(<<Msg(Str("user"), Str("q"), Undef, Undef),
          Msg(Str("assistant"), Null, Arr(<<ToolCall(Str("c1"), Undef, Str("search"))>>), Undef),
          Msg(Str("tool"), Str("r"), Undef, Str("c1"))>>),
    Arr(<<Msg(Str("user"), Arr(<<Null>>), Undef, Undef)>>) }

\* response_format and stream of a request
TExtras == {<<Undef, Undef>>, <<EmptyObj, Bool(TRUE)>>}

TRequests ==
  { TRequest(m, l, mt, x[1], x[2]) :
      m \in TModels, l \in TMessages, mt \in {Undef, Num(4000)}, x \in TExtras }

Contexts == {Undef, Context(Str("a")), Context(Str("b"))}

\* a client of the transformer: its request and context, where it is in its
\* loop, what transformRequestIn, transformResponseOut and handleToolResults
\* last returned to it, and the tool rounds it has started
NewCall(request, context) ==
  [request |-> request, context |-> context, phase |-> "new", out |-> Undef,
   resp |-> Undef, cont |-> Undef, rounds |-> 0]

InitConv ==
  /\ TransformerConstructed
  /\ \E r1 \in TRequests, r2 \in TRequests, c1 \in Contexts, c2 \in Contexts :
       clients = <<NewCall(r1, c1), NewCall(r2, c2)>>
  /\ req = [url |-> "", body |-> Undef]
  /\ pc = "idle"
  /\ orig = Undef
  /\ steps = <<>>
  /\ cfg = NoConfig
  /\ rt = RouterIdle
  /\ script = NoScript
  /\ decision = NoDecision
  /\ forwarded = NotForwarded
  /\ cancelled = FALSE
  /\ service = NotStarted

NextConv == \E i \in Callers : TransformRequestIn(i)

SpecConv == InitConv /\ [][NextConv]_vars

-----------------------------------------------------------------------------
(* The continuous-execution loop: clients that go on from the transformed   *)
(* request to the provider's response, the tools and the continuation       *)

LoopRequests ==
  { TRequest(Str("o3"), Arr(<<Msg(Str("user"), Str("fix it"), Undef, Undef)>>),
             Num(4000), Undef, Undef),
    TRequest(Undef, Arr(<<Msg(Str("system"), Str("be brief"), Undef, Undef),
                          Msg(Str("user"), Str("audit"), Undef, Undef)>>),
             Undef, Undef, Undef) }

LoopContexts == {Undef, Context(Str("a"))}

InitLoop ==
  /\ TransformerConstructed
  /\ \E r1 \in LoopRequests, r2 \in LoopRequests, c1 \in LoopContexts,
        c2 \in LoopContexts :
       clients = <<NewCall(r1, c1), NewCall(r2, c2)>>
  /\ req = [url |-> "", body |-> Undef]
  /\ pc = "idle"
  /\ orig = Undef
  /\ steps = <<>>
  /\ cfg = NoConfig
  /\ rt = RouterIdle
  /\ script = NoScript
  /\ decision = NoDecision
  /\ forwarded = NotForwarded
  /\ cancelled = FALSE
  /\ service = NotStarted

NextLoop ==
  \E i \in Callers :
    \/ TransformRequestIn(i)
    \/ TransformResponseOut(i)
    \/ HandleToolResults(i)

SpecLoop == InitLoop /\ [][NextLoop]_vars

-----------------------------------------------------------------------------
(* Claims about the transformer, checked under SpecConv and SpecLoop *)

\* what a call returns when it is the only call the process ever serves
Alone(c) ==
  transformRequestIn(c.request, c.context, [id \in ConvIds |-> Undef]).result

\* C7: concurrent requests share no mutable state: in every interleaving of
\* two requests, what each is transformed to equals what it is transformed to
\* when processed alone, also when both carry no conversation id.
C7_NoSharedState ==
  \A i \in DOMAIN clients :
    clients[i].phase \in {"sent", "failed"} => clients[i].out = Alone(clients[i])

\* the custom script is absent or pure: asked again, it answers the same
ScriptAbsentOrPure == script.kind \in {"none", "returns"}

C12_CancelledNeverForwarded ==
  cancelled => decision = NoDecision /\ ~forwarded.sent

\* the response carries a tool call: in its structured field, as an output
\* item, or written in its text
hasToolCalls(response) ==
  \/ Len(ListOf(messageField(response, "tool_calls"))) > 0
  \/ Len(toolCallItems(ListOf(response.output))) > 0
  \/ Len(callsInText(getResponseContent(response), "call_1")) > 0

\* the response was marked for continuation
Marked(response) == response.requiresContinuation = Bool(TRUE)

\* client i's call of transformResponseOut returns in this step
ResponseReturns(i) == clients[i].phase = "sent" /\ clients'[i].phase # "sent"

\* client i's call of handleToolResults settles in this step
ResultsHandled(i) == clients[i].phase = "tools" /\ clients'[i].phase # "tools"

\* C13: with continuous execution enabled, every response containing tool
\* calls is marked requiresContinuation and the next handleToolResults call for
\* its conversation returns action 'continue', never 'wait'; a response without
\* tool calls is not marked and removes the conversation's execution context.
C13_ContinuesUntilFinal ==
  [][\A i \in Callers :
       /\ ResponseReturns(i) =>
            /\ Marked(clients'[i].resp) <=> hasToolCalls(clients'[i].resp)
            /\ ~Marked(clients'[i].resp) =>
                 executionContexts'[conversationIdOf(clients[i].context)] = Undef
       /\ ResultsHandled(i) =>
            /\ clients'[i].cont.t = "object"
            /\ clients'[i].cont.action = "continue"]_vars

\* the messages a conversation's state holds; none before the state exists
Recorded(states, id) == IF Truthy(states[id]) THEN ListOf(states[id].messages) ELSE <<>>

\* sequence p is a prefix of sequence q
IsPrefix(p, q) == Len(p) <= Len(q) /\ SubSeq(q, 1, Len(p)) = p

\* C14: the full conversation history is maintained: for every operation on a
\* conversation, the message sequence its state held before the operation is a
\* prefix of the sequence it holds after it, so no recorded message is lost.
C14_HistoryOnlyGrows ==
  [][\A id \in ConvIds :
       IsPrefix(Recorded(conversationStates, id), Recorded(conversationStates', id))]_vars

-----------------------------------------------------------------------------
(* The start-up of the service: run() of index.ts, up to createServer *)

\* the configuration initConfig() reads: { HOST, APIKEY, PORT }
Settings(HOST, APIKEY, PORT) ==
  [t |-> "object", HOST |-> HOST, APIKEY |-> APIKEY, PORT |-> PORT]

\* the value of one decimal digit
DigitValue(c) ==
  CASE c = "0" -> 0 [] c = "1" -> 1 [] c = "2" -> 2 [] c = "3" -> 3 [] c = "4" -> 4
    [] c = "5" -> 5 [] c = "6" -> 6 [] c = "7" -> 7 [] c = "8" -> 8 [] OTHER -> 9

\* parseInt's result on a string without a leading digit
NaN == [t |-> "NaN"]

RECURSIVE DigitsValue(_, _)
\* the number the digits of s spell, continuing from acc
DigitsValue(s, acc) ==
  IF Len(s) = 0 THEN acc
  ELSE DigitsValue(Tail(s), acc * 10 + DigitValue(Head(s)))

\* parseInt(s): the leading digits of the trimmed string
parseInt(s) ==
  LET lead(u) == SubSeq(u, 1, RunWhile(u, 1, Digits) - 1)
      of(d) == IF Len(d) = 0 THEN NaN ELSE Num(DigitsValue(d, 0))
  IN of(lead(TrimLeft(s)))

\* let HOST = config.HOST; if (config.HOST && !config.APIKEY) HOST = "127.0.0.1"
hostOf(config) ==
  IF Truthy(config.HOST) /\ ~Truthy(config.APIKEY) THEN Str("127.0.0.1") ELSE config.HOST

DefaultPort == 3456

\* process.env.SERVICE_PORT ? parseInt(process.env.SERVICE_PORT) : config.PORT || 3456
servicePortOf(config, env) ==
  IF Truthy(env) THEN parseInt(env.s) ELSE Or(config.PORT, Num(DefaultPort))

\* the configurations and environments of the start-up's specification
Hosts == {Undef, Str(""), Str("0.0.0.0"), Str("127.0.0.1"), Str("192.168.1.5")}
ApiKeys == {Undef, Str(""), Str("sk-1")}
Ports == {Undef, Num(8080)}
ServicePorts == {Undef, Str("4000")}

\* isServiceRunning(): the PID file names a process that is alive; the
\* instances of this model, once started, stay alive
isServiceRunning(pidFile) == pidFile # "none"

\* run() finds the service running and returns
AlreadyRunning ==
  /\ service.pc = "start"
  /\ isServiceRunning(service.pidFile)
  /\ service' = [service EXCEPT !.pc = "exit"]
  /\ UNCHANGED <<pipe, conv>>

\* run() awaits initConfig(), which reads the configuration file
InitConfig ==
  /\ service.pc = "start"
  /\ ~isServiceRunning(service.pidFile)
  /\ \E HOST \in Hosts, APIKEY \in ApiKeys, PORT \in Ports :
       service' = [service EXCEPT !.pc = "configured",
                                  !.config = Settings(HOST, APIKEY, PORT)]
  /\ UNCHANGED <<pipe, conv>>

\* the rest of run(): HOST, the port, savePid(process.pid), createServer and
\* the hooks
CreateServer ==
  /\ service.pc = "configured"
  /\ service' = [service EXCEPT
                   !.pc = "serving",
                   !.pidFile = "first",
                   !.server = [t |-> "object", HOST |-> hostOf(service.config),
                               PORT |-> servicePortOf(service.config, service.env)]]
  /\ UNCHANGED <<pipe, conv>>

\* a second invocation of run(), in a process of its own: the check of
\* isServiceRunning() and the awaits that follow it
PeerRunStarts ==
  /\ service.peer = "start"
  /\ service' = [service EXCEPT
                   !.peer = IF isServiceRunning(service.pidFile) THEN "exit"
                            ELSE "configured"]
  /\ UNCHANGED <<pipe, conv>>

\* the rest of the second invocation: savePid(process.pid) and the server
PeerRunServes ==
  /\ service.peer = "configured"
  /\ service' = [service EXCEPT !.peer = "serving", !.pidFile = "second"]
  /\ UNCHANGED <<pipe, conv>>

\* the PID file as run() may find it: absent, or naming an earlier instance
PidFiles == {"none", "earlier"}

\* whether a second run() is invoked
Peers == {"off", "start"}

InitRun ==
  /\ \E pidFile \in PidFiles, peer \in Peers, env \in ServicePorts :
       service = [pc |-> "start", pidFile |-> pidFile, peer |-> peer, env |-> env,
                  config |-> Undef, server |-> Undef]
  /\ TransformerConstructed
  /\ clients = <<>>
  /\ req = [url |-> "", body |-> Undef]
  /\ pc = "idle"
  /\ orig = Undef
  /\ steps = <<>>
  /\ cfg = NoConfig
  /\ rt = RouterIdle
  /\ script = NoScript
  /\ decision = NoDecision
  /\ forwarded = NotForwarded
  /\ cancelled = FALSE

NextRun ==
  AlreadyRunning \/ InitConfig \/ CreateServer \/ PeerRunStarts \/ PeerRunServes

SpecRun == InitRun /\ [][NextRun]_vars

\* C15: whenever no APIKEY is configured, the server is created with HOST
\* equal to 127.0.0.1, for every configured HOST value including none.
C15_LocalhostWithoutKey ==
  service.pc = "serving" /\ service.config.APIKEY = Undef =>
    service.server.HOST = Str("127.0.0.1")

-----------------------------------------------------------------------------
(* Requests whose messages are not all well-formed: elements that are null  *)
(* or no objects, tool calls that are null, content of an unexpected type   *)

RawElements ==
  { Null, Str("x"), Num(5), EmptyObj,
    Msg(Str("user"), Str("hi"), Undef, Undef),
    Msg(Str("user"), Num(5), Undef, Undef),
    Msg(Str("assistant"), EmptyObj, Undef, Undef),
    Msg(Str("assistant"), Null, Arr(<<Null>>), Undef),
    Msg(Str("assistant"), Arr(<<ToolUse(Undef, Undef, Undef)>>), Undef, Undef) }

InitRaw ==
  /\ \E u \in Urls, l \in SeqsUpTo(RawElements, MaxMsgs) :
       req = [url |-> u, body |-> NormBody("messages", l)]
  /\ orig = req.body
  /\ pc = "nullfix"
  /\ steps = <<>>
  /\ cfg = NoConfig
  /\ rt = RouterIdle
  /\ script = NoScript
  /\ decision = NoDecision
  /\ forwarded = NotForwarded
  /\ cancelled = FALSE
  /\ service = NotStarted
  /\ TransformerConstructed
  /\ clients = <<>>

NextRaw == NullContentFix

SpecRaw == InitRaw /\ [][NextRaw]_vars

\* C16: Pass A never throws: for every body whose messages field is an array,
\* including arrays that contain null or non-object elements and messages
\* whose content has an unexpected type, the pass completes without raising
\* and yields a messages array.
C16_PassANeverThrows ==
  HookRan /\ IsArr(orig.messages) => pc # "failed" /\ IsArr(req.body.messages)

-----------------------------------------------------------------------------
(* Claims about what Pass A writes, checked under SpecNorm *)

\* the message carries a non-empty list of tool calls
CarriesToolCalls(msg) == IsArr(msg.tool_calls) /\ Len(msg.tool_calls.a) > 0

\* the names of the calls, in call order
NamesOf(calls) == [k \in 1..Len(calls) |-> toolName(calls[k])]

\* C17 as stated: for every message with absent content that carries a
\* non-empty list of tool calls, Pass A sets the content to "Executing tools: "
\* followed by the tool names joined by commas in call order.
C17_PlainPrefix ==
  LET holds(msg, out) ==
        ContentAbsent(msg) /\ CarriesToolCalls(msg) =>
          out.content = Str("Executing tools: " \o Join(NamesOf(msg.tool_calls.a), ", "))
  IN HookRan =>
       \A i \in 1..Len(ListOf(orig.messages)) :
         holds(orig.messages.a[i], req.body.messages.a[i])

\* C17 as amended: for every message with absent content that carries a
\* non-empty list of tool calls and is no tool-result message (role tool or a
\* tool_call_id), Pass A sets the content to "[Executing N tool: " ("tools"
\* when N > 1), the tool names joined by ", " in call order, and "]"; a
\* tool-result message gets the empty string.
C17_BracketedCount ==
  LET text(n, names) ==
        "[Executing " \o ToString(n) \o (IF n = 1 THEN " tool: " ELSE " tools: ")
          \o Join(names, ", ") \o "]"
      holds(msg, out) ==
        ContentAbsent(msg) /\ CarriesToolCalls(msg) =>
          out.content = IF IsToolMessage(msg) THEN Str("")
                        ELSE Str(text(Len(msg.tool_calls.a), NamesOf(msg.tool_calls.a)))
  IN HookRan =>
       \A i \in 1..Len(ListOf(orig.messages)) :
         holds(orig.messages.a[i], req.body.messages.a[i])

\* an assistant message with absent content and the one call search was given
\* the bracketed text
C17_Witness ==
  /\ HookRan
  /\ \E i \in 1..Len(ListOf(orig.messages)) :
       /\ orig.messages.a[i].role = Str("assistant")
       /\ orig.messages.a[i].content = Null
       /\ orig.messages.a[i].tool_calls = Arr(<<Call("search", "c1")>>)
       /\ req.body.messages.a[i].content = Str("[Executing 1 tool: search]")

\* C18: for every message with absent content, no tool calls, and role user
\* or system, Pass A sets the content to the empty string.
C18_SilentUserAndSystem ==
  LET holds(msg, out) ==
        /\ ContentAbsent(msg)
        /\ ~Truthy(msg.tool_calls)
        /\ msg.role \in {Str("user"), Str("system")}
        => out.content = Str("")
  IN HookRan =>
       \A i \in 1..Len(ListOf(orig.messages)) :
         holds(orig.messages.a[i], req.body.messages.a[i])

\* C19: for block-list content, Pass A removes every absent element and keeps
\* every other element in its original relative order, replacing an absent
\* text by "": the output has exactly as many blocks as the input has
\* non-absent elements.
C19_AbsentBlocksRemoved ==
  LET kept(q, out) ==
        /\ Len(out) = Len(q)
        /\ \E g \in GenIds : out = [k \in 1..Len(q) |-> fixContentItem(q[k], g)]
      holds(msg, out) ==
        IsArr(msg.content) => kept(dropNullish(msg.content.a), out.content.a)
  IN HookRan =>
       \A i \in 1..Len(ListOf(orig.messages)) :
         holds(orig.messages.a[i], req.body.messages.a[i])

\* an element of a block list none of whose text and tool-result fields is
\* absent
DefinedItem(item) ==
  /\ ~IsNullish(item)
  /\ item.t = "object" =>
       /\ item.type = Str("text") => ~IsNullish(item.text)
       /\ item.type = Str("tool_result") => ~IsNullish(item.content)

\* a message Pass A has nothing to fix in: its content is a string, or a block
\* list of defined items
NothingAbsent(msg) ==
  \/ IsStr(msg.content)
  \/ /\ IsArr(msg.content)
     /\ \A k \in 1..Len(msg.content.a) : DefinedItem(msg.content.a[k])

\* C20: Pass A changes only absent values: every message whose content is a
\* string (the empty string included), or a block list in which no element is
\* absent and every text and tool-result field is defined, is returned with
\* all of its fields and blocks unchanged.
C20_OnlyAbsentChanges ==
  LET holds(msg, out) == NothingAbsent(msg) => out = msg
  IN HookRan =>
       \A i \in 1..Len(ListOf(orig.messages)) :
         holds(orig.messages.a[i], req.body.messages.a[i])

-----------------------------------------------------------------------------
(* Claims about the converted request, checked under SpecLoop *)

\* client i's request, or its continuation, is returned transformed in this
\* step
RequestReturns(i) == clients[i].phase \in {"new", "tools"} /\ clients'[i].phase = "sent"

\* the transformed request client i holds: the continuation when it has one
TransformedFor(c) == IF c.cont.t = "object" THEN c.cont.request ELSE c.out

\* C21: in the strict-shape projection, a tool-role message with tool call id
\* T is rendered as one input-tagged text block whose text is
\* "[Tool Result T]\n" followed by the message content, or followed by
\* "[No output]" when the content is absent or empty.
C21_ToolResultRendered ==
  [][LET rendered(msg, out) ==
           msg.role = Str("tool") =>
             out.content.a =
               <<TypeText("input_text",
                          "[Tool Result " \o JsString(msg.tool_call_id) \o "]\n"
                            \o (IF Truthy(msg.content) THEN JsString(msg.content)
                                ELSE "[No output]"))>>
         all(messages, input) ==
           \A j \in 1..Len(messages) : rendered(messages[j], input.a[j])
     IN \A i \in Callers :
          RequestReturns(i) =>
            all(Recorded(conversationStates', conversationIdOf(clients[i].context)),
                TransformedFor(clients'[i]).input)]_vars

-----------------------------------------------------------------------------
(* Further claims about the two passes of the preHandler, checked under     *)
(* SpecNorm                                                                  *)

\* a block of type tool_use or tool_result
IsToolBlock(item) ==
  item.t = "object" /\ item.type \in {Str("tool_use"), Str("tool_result")}

\* C22: after the strict-shape pass over body.input, no block of type tool_use
\* or tool_result remains in any message: each tool_use block has been
\* replaced by a text block "[Tool: <name> (<id>)]" and each tool_result block
\* by a text block "[Tool Result <id>]\n<content>", whether or not the original
\* block had a text field.
C22_NoToolBlockRemains ==
  LET text(item) ==
        IF item.type = Str("tool_use")
        THEN "[Tool: " \o JsString(Or(item.name, Str("unknown"))) \o " ("
               \o JsString(Or(item.id, Str("unknown"))) \o ")]"
        ELSE "[Tool Result " \o JsString(Or(item.tool_use_id, Str("unknown"))) \o "]\n"
               \o JsString(Or(item.content, Str("")))
      replaced(item, out) ==
        IsToolBlock(item) => ~IsToolBlock(out) /\ out.text = Str(text(item))
      holds(msg, out) ==
        IsArr(msg.content) =>
          \A k \in 1..Len(msg.content.a) : replaced(msg.content.a[k], out.content.a[k])
  IN HookRan /\ pc # "failed" =>
       \A i \in 1..Len(ListOf(orig.input)) :
         holds(orig.input.a[i], req.body.input.a[i])

\* C23: Pass A never leaves an empty block list: when a message's block list
\* is empty on arrival, or becomes empty after absent elements are dropped, the
\* resulting content is exactly one text block with text "".
C23_NoEmptyBlockList ==
  LET holds(msg, out) ==
        IsArr(msg.content) =>
          /\ Len(out.content.a) > 0
          /\ Len(dropNullish(msg.content.a)) = 0 =>
               out.content.a = <<TypeText("text", "")>>
  IN HookRan =>
       \A i \in 1..Len(ListOf(orig.messages)) :
         holds(orig.messages.a[i], req.body.messages.a[i])

-----------------------------------------------------------------------------
(* The normalised request on its way to the provider: the hook, then the    *)
(* transformer's transformRequestIn on the body the hook left               *)

\* the provider's transformer is given the body the hook left, as the request
\* of a conversation without id
TransformNormalised ==
  /\ pc = "router"
  /\ \E r \in {transformRequestIn(
                 TRequest(req.body.model, req.body.messages, Undef, Undef, Undef),
                 Undef, conversationStates)} :
       /\ conversationStates' = r.states
       /\ clients' = <<[NewCall(TRequest(req.body.model, req.body.messages,
                                         Undef, Undef, Undef), Undef)
                          EXCEPT !.out = r.result,
                                 !.phase = IF r.result = Thrown THEN "failed" ELSE "sent"]>>
  /\ pc' = "transformed"
  /\ UNCHANGED <<req, orig, steps, cfg, rt, script, decision, forwarded, cancelled,
                 executionContexts, service>>

NextFlow == NullContentFix \/ TransformNormalised

SpecFlow == InitNorm /\ [][NextFlow]_vars

\* the fields of a message other than its content
Envelope(msg) == <<msg.role, msg.tool_calls, msg.tool_call_id>>

\* the list out has the length of the list in, and each of its messages keeps
\* the envelope of the message at its position
SamePositions(in, out) ==
  /\ Len(out) = Len(in)
  /\ \A i \in 1..Len(in) : Envelope(out[i]) = Envelope(in[i])

\* the converted list has the length of the messages it was made from, and
\* each of its entries has the role of the message at its position, a tool
\* message becoming a user entry
ConvertedPositions(messages, input) ==
  /\ Len(input) = Len(messages)
  /\ \A i \in 1..Len(messages) :
       input[i].role = IF messages[i].role = Str("tool") THEN Str("user")
                       ELSE messages[i].role

\* the request has been through the hook and the transformer
Transformed == pc = "transformed" /\ clients[1].phase = "sent"

-----------------------------------------------------------------------------
(* Further claims about the continuous-execution loop, checked under        *)
(* SpecLoop                                                                  *)

\* the tool calls the conversation's execution context records as pending
PendingTools(contexts, id) ==
  IF Truthy(contexts[id]) THEN ListOf(contexts[id].pendingTools) ELSE <<>>

\* C25: all pending tools complete before the conversation continues:
\* handleToolResults returns action 'continue' only when a result has been
\* received (matched by tool_call_id) for every tool call recorded as pending
\* by the preceding transformResponseOut.
C25_ContinuesWhenAllComplete ==
  [][LET received(call, before, after) ==
           \E j \in (Len(before) + 1)..Len(after) :
             after[j].role = Str("tool") /\ after[j].tool_call_id = call.id
         complete(pending, before, after) ==
           \A k \in 1..Len(pending) : received(pending[k], before, after)
         on(id) ==
           complete(PendingTools(executionContexts, id),
                    Recorded(conversationStates, id), Recorded(conversationStates', id))
     IN \A i \in Callers :
          ResultsHandled(i) /\ clients'[i].phase = "sent" =>
            on(conversationIdOf(clients[i].context))]_vars

-----------------------------------------------------------------------------
(* Further claims about the routing pipeline, checked under Spec *)

\* C26: the subagent tag extractor is idempotent: applying the extractor to
\* the stripped text produced by a first application reports found=false and
\* returns that text unchanged. The first application is the one the
\* subagent-tag rule made on the designated message.
C26_ExtractorIdempotent ==
  LET noop(content, again) == ~again.found /\ again.content = content
      second(content) == noop(content, extractFromContent(content))
      on(list) == second(list[designated(list)].content)
  IN decision.source = "subagentTag" => on(ListOf(req.body.messages))


\* C27: for every request to /v1/messages, the routing preHandler does not
\* complete, and the request is therefore not handed to the downstream
\* handler, until router(req, reply, config) has finished applying its
\* decision to the request.
C27_RouterFinishesBeforeHandoff ==
  isMessagesUrl(req.url) /\ (pc \in {"handler", "done"} \/ forwarded.sent) =>
    rt.phase \in {"done", "discarded"}

-----------------------------------------------------------------------------
(* A further claim about the service's start-up, checked under SpecRun *)

\* C28: at most one service instance runs at a time: of any two run()
\* invocations, including two that start concurrently, at most one reaches
\* savePid and server start, so the PID file is never overwritten while the
\* instance it names is still running.
C28_SingleInstance ==
  [][/\ ~(service'.pc = "serving" /\ service'.peer = "serving")
     /\ isServiceRunning(service.pidFile) => service'.pidFile = service.pidFile]_vars

-----------------------------------------------------------------------------
(* A conversation that has gone through options.maxIterations tool rounds,  *)
(* beside a client that is about to send its first request                  *)

\* the conversation that has iterated, its request and one of its rounds
IterContext == Context(Str("a"))

IterRequest ==
  TRequest(Str("o3"), Arr(<<Msg(Str("user"), Str("fix it"), Undef, Undef)>>),
           Num(4000), Undef, Undef)

IterResponse ==
  Response(Undef, Answer(Str("reading"),
                         Arr(<<ToolCall(Str("c1"), Undef, Str("read_file"))>>)), Undef)

\* one tool round as the loop of testContinuousExecution runs it:
\* transformResponseOut on the provider's answer, the tools executed, their
\* results handed to handleToolResults
RoundOf(maps) ==
  LET handed(o, h) ==
        [states |-> h.states, contexts |-> o.contexts, resp |-> o.result, cont |-> h.result]
      back(o) ==
        handed(o, handleToolResults(executeTools(ListOf(o.result.toolCalls), Str("ok")),
                                    idArgument(IterContext), o.states, o.contexts))
  IN back(transformResponseOut(IterResponse, IterContext, maps.states, maps.contexts,
                               "call_1"))

RECURSIVE AfterRounds(_, _)
\* the transformer after n such rounds, as long as handleToolResults answers
AfterRounds(n, maps) ==
  LET next(m) == IF m.cont.t = "object" THEN AfterRounds(n - 1, m) ELSE m
  IN IF n = 0 THEN maps ELSE next(RoundOf(maps))

\* the first client has sent its request and gone through maxIterations tool
\* rounds; the second is about to call transformRequestIn, without a
\* conversation id or with the first one's. The rounds counted from here on
\* are bounded by MaxRounds.
InitIter ==
  /\ \E first \in {transformRequestIn(IterRequest, IterContext, [id \in ConvIds |-> Undef])} :
       \E past \in {AfterRounds(Options.maxIterations,
                                [states |-> first.states,
                                 contexts |-> [id \in ConvIds |-> Undef],
                                 resp |-> Undef, cont |-> Undef])} :
         /\ conversationStates = past.states
         /\ executionContexts = past.contexts
         /\ \E r2 \in LoopRequests, c2 \in LoopContexts :
              clients = <<[NewCall(IterRequest, IterContext) EXCEPT
                             !.phase = "sent", !.out = first.result,
                             !.resp = past.resp, !.cont = past.cont],
                          NewCall(r2, c2)>>
  /\ req = [url |-> "", body |-> Undef]
  /\ pc = "idle"
  /\ orig = Undef
  /\ steps = <<>>
  /\ cfg = NoConfig
  /\ rt = RouterIdle
  /\ script = NoScript
  /\ decision = NoDecision
  /\ forwarded = NotForwarded
  /\ cancelled = FALSE
  /\ service = NotStarted

SpecIter == InitIter /\ [][NextLoop]_vars

\* the iterations the conversation's state counts
IterationsOf(states, id) == IF Truthy(states[id]) THEN states[id].iterations ELSE 0

\* C29: continuous execution is bounded: for every conversation,
\* state.iterations never exceeds options.maxIterations (default 50), and once
\* it reaches that bound no further response is marked requiresContinuation,
\* even if every model response contains tool calls.
C29_IterationsBounded ==
  [][/\ \A id \in ConvIds : IterationsOf(conversationStates', id) <= Options.maxIterations
     /\ \A i \in Callers :
          /\ ResponseReturns(i)
          /\ IterationsOf(conversationStates, conversationIdOf(clients[i].context))
               >= Options.maxIterations
          => ~Marked(clients'[i].resp)]_vars

-----------------------------------------------------------------------------
(* The frame of the transformer's three methods, checked under SpecIter and *)
(* SpecLoop                                                                  *)

\* the results of one executed tool call
SomeResults == executeTools(<<ToolCall(Str("c1"), Undef, Str("read_file"))>>, Str("ok"))

\* the ways a caller names conversation id: the string, or nothing for 'default'
ArgumentsFor(id) == IF id = "default" THEN {Undef, Str(id)} ELSE {Str(id)}

\* C30: conversations are isolated by id: transformRequestIn,
\* transformResponseOut and handleToolResults invoked for conversation id X
\* leave the conversation state and the execution context of every other
\* conversation id unchanged, and a failing handleToolResults (no state for X)
\* changes no state at all.
C30_IsolatedById ==
  [][LET others(X) ==
           \A y \in ConvIds \ {X} :
             /\ conversationStates'[y] = conversationStates[y]
             /\ executionContexts'[y] = executionContexts[y]
         rejected(h) == h.result = NoStateError /\ h.states = conversationStates
         failing(id) ==
           ~Truthy(conversationStates[id]) =>
             \A arg \in ArgumentsFor(id) :
               rejected(handleToolResults(SomeResults, arg, conversationStates,
                                          executionContexts))
     IN /\ \A i \in Callers :
             clients'[i] # clients[i] => others(conversationIdOf(clients[i].context))
        /\ \A id \in ConvIds : failing(id)]_vars

\* two conversations side by side: 'a' waits for tool results while the
\* conversation without an id has received its final answer, and 'b' has no
\* state
C30_Witness ==
  /\ Truthy(conversationStates["a"]) /\ Truthy(executionContexts["a"])
  /\ Truthy(conversationStates["default"])
  /\ ~Truthy(conversationStates["b"])
  /\ \E i \in Callers : clients[i].context = Undef /\ clients[i].phase = "done"
  /\ \E i \in Callers : clients[i].context = Context(Str("a")) /\ clients[i].phase = "tools"

====
